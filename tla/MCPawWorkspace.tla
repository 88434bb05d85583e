--------------------------- MODULE MCPawWorkspace ---------------------------
(* Two files, so that a command can be between them. *)
EXTENDS PawWorkspace

Is(method, guarded, delete) ==
  [method |-> method, guarded |-> guarded, delete |-> delete]

(* Full files and deletions that name their base, a full file that does not, a
   diff, and a change that writes nothing. *)
MCChanges ==
  {Is("full_file", TRUE, FALSE), Is("full_file", TRUE, TRUE),
   Is("full_file", FALSE, FALSE), Is("diff", TRUE, FALSE),
   Is("listed", FALSE, FALSE)}
=============================================================================
