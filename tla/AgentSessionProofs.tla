------------------------- MODULE AgentSessionProofs -------------------------
(***************************************************************************)
(* Theorems about AgentSession for any number of overlapping calls of      *)
(* prompt(), texts, turns, tool calls, retries and shell commands: types,  *)
(* delivery of messages, the loop's own state, what a resumed session      *)
(* sees, and the form of every request to the model.  What                 *)
(* transformMessages returns is shown by induction over the transcript,    *)
(* with the lemmas of SequenceLemmas.                                      *)
(***************************************************************************)
EXTENDS AgentSession, SequenceLemmas, SequenceTheorems, TLAPS

(* The messages of a transcript. *)
UserMessages == [role : {"user"}, text : Texts]

ResultMessages == [role : {"toolResult"}, turn : Nat, call : Nat]

Messages == AnswerMessages \cup UserMessages \cup ResultMessages \cup {Bash, Summary}

(* Messages that are neither a user's nor an answer. *)
SideMessages == ResultMessages \cup {Bash}

-----------------------------------------------------------------------------
(* What the operators on messages and queues give. *)

LEMMA RolesOf ==
  /\ \A m \in AnswerMessages : m.role = "assistant" /\ m # None
  /\ \A m \in UserMessages : m.role = "user" /\ m.text \in Texts
  /\ \A m \in SideMessages : m.role \notin {"user", "assistant"}
  /\ Bash.role = "bash" /\ Summary.role = "summary"
  /\ SideMessages \subseteq Messages
<1>2. \A m \in AnswerMessages : m.role = "assistant" /\ m # None
  BY NoneAssumption DEF AnswerMessages
<1>3. \A m \in UserMessages : m.role = "user" /\ m.text \in Texts
  BY DEF UserMessages
<1>4. Bash.role = "bash" /\ Summary.role = "summary"
  BY DEF Bash, Summary
<1> QED
  BY <1>2, <1>3, <1>4 DEF ResultMessages, SideMessages, Messages

LEMMA AnswerRole ==
  ASSUME NEW m \in Messages
  PROVE  /\ IsAssistant(m) <=> m \in AnswerMessages
         /\ m.role = "user" <=> m \in UserMessages
BY DEF AnswerMessages, UserMessages, ResultMessages, Messages, Bash, Summary, IsAssistant

(* The messages a step has finished are the ones it has appended. *)
LEMMA NewMessagesAre ==
  ASSUME NEW S, messages \in Seq(S), NEW x \in Seq(S), messages' = messages \o x
  PROVE  NewMessages = x
<1> DEFINE n == Len(messages)
           k == Len(x)
           c == messages \o x
<1>1. /\ c \in Seq(S) /\ Len(c) = n + k /\ n \in Nat /\ k \in Nat
      /\ \A i \in 1..(n + k) : c[i] = IF i <= n THEN messages[i] ELSE x[i - n]
  BY ConcatProperties, LenProperties
<1>2. NewMessages = SubSeq(c, n + 1, n + k)
  BY <1>1 DEF NewMessages
<1> HIDE DEF n, k, c
<1>3. SubSeq(c, n + 1, n + k) = [i \in 1..k |-> c[n + i]]
  BY <1>1
<1>4. \A i \in 1..k : c[n + i] = x[i]
  BY <1>1
<1>5. x = [i \in 1..k |-> x[i]]
  BY DEF k
<1> QED
  BY <1>2, <1>3, <1>4, <1>5

(* TextsOf of a longer transcript. *)
LEMMA TextsOfConcat ==
  ASSUME NEW p \in Seq(Messages), NEW x \in Seq(Messages)
  PROVE  TextsOf(p \o x) = TextsOf(p) \cup TextsOf(x)
<1> DEFINE n == Len(p)
           k == Len(x)
           c == p \o x
<1>1. /\ n \in Nat /\ k \in Nat /\ Len(c) = n + k
      /\ DOMAIN p = 1..n /\ DOMAIN x = 1..k /\ DOMAIN c = 1..(n + k)
      /\ \A i \in 1..(n + k) : c[i] = IF i <= n THEN p[i] ELSE x[i - n]
  BY ConcatProperties, LenProperties
<1> HIDE DEF n, k, c
<1>2. \A i \in DOMAIN p : i \in DOMAIN c /\ c[i] = p[i]
  BY <1>1
<1>3. \A i \in DOMAIN x : (n + i) \in DOMAIN c /\ c[n + i] = x[i]
  BY <1>1
<1>4. \A i \in DOMAIN c : \/ i \in DOMAIN p /\ c[i] = p[i]
                          \/ (i - n) \in DOMAIN x /\ c[i] = x[i - n]
  BY <1>1
<1>5. Range(c) = Range(p) \cup Range(x)
  BY <1>2, <1>3, <1>4 DEF Range
<1> QED
  BY <1>5 DEF TextsOf, c

LEMMA UsersOf ==
  ASSUME NEW ts \in Seq(Texts)
  PROVE  /\ AsUsers(ts) \in Seq(Messages) /\ AsUsers(ts) \in Seq(UserMessages)
         /\ Len(AsUsers(ts)) = Len(ts)
         /\ \A i \in 1..Len(ts) : AsUsers(ts)[i] = User(ts[i])
         /\ TextsOf(AsUsers(ts)) = Range(ts)
         /\ ts = <<>> => AsUsers(ts) = <<>>
<1> DEFINE u == AsUsers(ts)
<1>1. u = [i \in 1..Len(ts) |-> User(ts[i])] /\ Len(ts) \in Nat /\ DOMAIN ts = 1..Len(ts)
  BY DEF AsUsers
<1>2. \A i \in 1..Len(ts) : ts[i] \in Texts
  BY <1>1
<1>3. \A t \in Texts : User(t) \in UserMessages /\ User(t).role = "user" /\ User(t).text = t
  BY DEF User, UserMessages
<1>4. /\ u \in Seq(UserMessages) /\ Len(u) = Len(ts) /\ DOMAIN u = 1..Len(ts)
      /\ \A i \in 1..Len(ts) : u[i] = User(ts[i])
  BY <1>1, <1>2, <1>3
<1> HIDE DEF u
<1>5. u \in Seq(Messages)
  BY <1>4 DEF Messages
<1>6. TextsOf(u) = Range(ts)
  <2>1. TextsOf(u) = {m.text : m \in {y \in Range(u) : y.role = "user"}}
    BY DEF TextsOf
  <2>2. ASSUME NEW t \in TextsOf(u) PROVE t \in Range(ts)
    <3>1. PICK m \in Range(u) : t = m.text
      BY <2>1
    <3>2. PICK i \in 1..Len(ts) : m = User(ts[i])
      BY <1>4, <3>1 DEF Range
    <3>3. t = ts[i]
      BY <1>2, <1>3, <3>1, <3>2
    <3> QED
      BY <1>1, <3>3 DEF Range
  <2>3. ASSUME NEW t \in Range(ts) PROVE t \in TextsOf(u)
    <3>1. PICK i \in 1..Len(ts) : t = ts[i]
      BY <1>1 DEF Range
    <3>2. u[i] \in Range(u) /\ u[i].role = "user" /\ u[i].text = t
      BY <1>2, <1>3, <1>4, <3>1 DEF Range
    <3> QED
      BY <2>1, <3>2
  <2> QED
    BY <2>2, <2>3
<1>7. ts = <<>> => u = <<>>
  BY <1>4
<1> QED
  BY <1>4, <1>5, <1>6, <1>7 DEF u

LEMMA SideHasNoTexts ==
  ASSUME NEW x \in Seq(Messages), \A i \in 1..Len(x) : x[i] \notin UserMessages
  PROVE  TextsOf(x) = {}
<1>1. \A m \in Range(x) : m \in Messages /\ m \notin UserMessages
  BY DEF Range
<1> QED
  BY <1>1, AnswerRole DEF TextsOf

(* No text twice. *)
Once(p) == \A i, j \in DOMAIN p : p[i].role = "user" /\ p[i] = p[j] => i = j

LEMMA OnceConcat ==
  ASSUME NEW p \in Seq(Messages), NEW x \in Seq(Messages), Once(p), Once(x),
         TextsOf(p) \cap TextsOf(x) = {}
  PROVE  Once(p \o x)
<1> DEFINE n == Len(p)
           k == Len(x)
           c == p \o x
<1>1. /\ n \in Nat /\ k \in Nat /\ Len(c) = n + k
      /\ DOMAIN p = 1..n /\ DOMAIN x = 1..k /\ DOMAIN c = 1..(n + k)
      /\ \A i \in 1..(n + k) : c[i] = IF i <= n THEN p[i] ELSE x[i - n]
  BY ConcatProperties, LenProperties
<1>2. \A i \in DOMAIN p : p[i].role = "user" => p[i].text \in TextsOf(p)
  BY DEF TextsOf, Range
<1>3. \A i \in DOMAIN x : x[i].role = "user" => x[i].text \in TextsOf(x)
  BY DEF TextsOf, Range
<1> HIDE DEF n, k, c
<1>4. SUFFICES ASSUME NEW i \in DOMAIN c, NEW j \in DOMAIN c, c[i].role = "user", c[i] = c[j]
               PROVE  i = j
  BY DEF Once, c
<1>5. CASE i <= n /\ j <= n
  <2>1. i \in DOMAIN p /\ j \in DOMAIN p /\ c[i] = p[i] /\ c[j] = p[j]
    BY <1>1, <1>5
  <2> QED
    BY <1>4, <2>1 DEF Once
<1>6. CASE i > n /\ j > n
  <2>1. i - n \in DOMAIN x /\ j - n \in DOMAIN x /\ c[i] = x[i - n] /\ c[j] = x[j - n]
    BY <1>1, <1>6
  <2>2. i - n = j - n
    BY <1>4, <2>1 DEF Once
  <2> QED
    BY <1>1, <2>2
<1>7. CASE i <= n /\ j > n
  <2>1. i \in DOMAIN p /\ j - n \in DOMAIN x /\ c[i] = p[i] /\ c[j] = x[j - n]
    BY <1>1, <1>7
  <2> QED
    BY <1>2, <1>3, <1>4, <2>1
<1>8. CASE i > n /\ j <= n
  <2>1. i - n \in DOMAIN x /\ j \in DOMAIN p /\ c[i] = x[i - n] /\ c[j] = p[j]
    BY <1>1, <1>8
  <2> QED
    BY <1>2, <1>3, <1>4, <2>1
<1> QED
  BY <1>1, <1>5, <1>6, <1>7, <1>8

LEMMA OnceUsers ==
  ASSUME NEW ts \in Seq(Texts), IsInjective(ts)
  PROVE  Once(AsUsers(ts))
<1>1. /\ DOMAIN AsUsers(ts) = 1..Len(ts) /\ DOMAIN ts = 1..Len(ts)
      /\ \A i \in 1..Len(ts) : AsUsers(ts)[i] = User(ts[i])
  BY UsersOf, LenProperties
<1>2. \A t, v : User(t) = User(v) => t = v
  BY DEF User
<1> QED
  BY <1>1, <1>2 DEF Once, IsInjective

LEMMA OnceSide ==
  ASSUME NEW x \in Seq(Messages), \A i \in 1..Len(x) : x[i] \notin UserMessages
  PROVE  Once(x)
<1>1. \A i \in DOMAIN x : x[i] \in Messages /\ x[i].role # "user"
  BY AnswerRole
<1> QED
  BY <1>1 DEF Once

-----------------------------------------------------------------------------
(* The inductive invariant. *)

Places == {"idle", "poll", "turn", "request", "preflight", "execute", "results",
           "turnEnd", "followUps", "finish"}

Phases == {"off", "submit", "running", "post", "sleep", "resume", "compact"}

DriverRecords == [phase : Phases, text : Texts \cup {None}, then : {"end", "submit"},
                  msg : AnswerMessages \cup {None}, reason : {"threshold", "overflow"},
                  len : Nat]

(* What the variables hold. *)
Types ==
  /\ messages \in Seq(Messages) /\ persisted \in Seq(Messages)
  /\ steering \in Seq(Texts) /\ followUp \in Seq(Texts) /\ pending \in Seq(Texts)
  /\ lastAssistant \in AnswerMessages \cup {None}
  /\ turns \in Nat /\ pc \in Places
  /\ DOMAIN batch = {"mode", "calls", "started", "status"}
  /\ batch.calls \in Nat /\ batch.started \in Nat
  /\ retryAttempt \in 0..MaxRetries
  /\ sleeper \in Drivers \cup {None}
  /\ bashRuns \in 0..MaxBash /\ pendingBash \in 0..bashRuns
  /\ driver \in [Drivers -> DriverRecords]
  /\ overlapped \in BOOLEAN /\ used \subseteq Texts

(* The kept part of the session file, and what a compaction was asked about, lie *)
(* inside the file.                                                              *)
InsideFile ==
  /\ firstKept \in 1..(Len(persisted) + 1)
  /\ \A d \in Drivers : driver[d].len <= Len(persisted)

(* A call of prompt() holds its text until it submits it. *)
HoldsText(r) ==
  /\ r.phase = "submit" \/ r.then = "submit" \/ (r.phase = "compact" /\ r.msg = None) => r.text # None
  /\ r.phase = "sleep" => r.msg # None
  /\ r.phase = "off" => r.text = None

(* Each text is in one place: in a queue, drained, with a driver or in the file. *)
OnePlace ==
  /\ IsInjective(steering) /\ IsInjective(followUp) /\ IsInjective(pending)
  /\ Range(steering) \cap Range(followUp) = {}
  /\ Range(pending) \cap (Range(steering) \cup Range(followUp)) = {}
  /\ TextsOf(persisted) \cap (Range(steering) \cup Range(followUp) \cup Range(pending)) = {}
  /\ \A d \in Drivers : driver[d].text \notin
        Range(steering) \cup Range(followUp) \cup Range(pending) \cup TextsOf(persisted)
  /\ \A d, e \in Drivers : driver[d].text = driver[e].text /\ driver[d].text # None => d = e

(* Only texts that were sent are anywhere; a queue holds none that was given back. *)
OnlySent ==
  /\ Range(steering) \cup Range(followUp) \cup Range(pending) \cup TextsOf(persisted)
       \cup cleared \subseteq used
  /\ \A d \in Drivers : driver[d].text \in used \cup {None}
  /\ cleared \cap (Range(steering) \cup Range(followUp)) = {}
  /\ \A d \in Drivers : driver[d].text \notin cleared
  /\ pc # "turn" => pending = <<>>

(* Which driver a run, its end and the delay belong to. *)
OneRun ==
  /\ isStreaming => \E d \in Drivers : driver[d].phase = "running"
  /\ \A d \in Drivers : driver[d].phase = "running" => isStreaming
  /\ \A d, e \in Drivers :
       {driver[d].phase, driver[e].phase} \subseteq {"running", "post"} => d = e
  /\ \A d \in Drivers : driver[d].phase = "post" => Idle /\ lastAssistant # None
  /\ sleeper # None => driver[sleeper].phase = "sleep"

Answered == {"preflight", "execute", "results", "turnEnd", "followUps"}

HasAnswer ==
  /\ pc \in Answered \cup {"finish"} => lastAssistant # None
  /\ pc \in Answered => lastAssistant.stop \notin Errors

(* A transcript that has begun starts with a user's message, a shell result or a *)
(* summary, and never becomes empty again.                                       *)
Begun ==
  /\ messages # <<>> => ~IsAssistant(messages[1])
  /\ \A d \in Drivers :
       \/ driver[d].phase \in {"running", "post", "sleep", "resume"}
       \/ driver[d].phase = "compact" /\ driver[d].msg # None
       => messages # <<>>

(* A queue that holds something has a driver at work. *)
Attended == hasQueuedMessages => \E d \in Drivers : driver[d].phase # "off"

(* The transcript does not end in an answer; not in two of them. *)
EndsOpen(ms) == ms # <<>> => ~IsAssistant(ms[Len(ms)])

EndsOnce(ms) == Len(ms) > 1 => ~IsAssistant(ms[Len(ms) - 1])

(* Where the counter of retries may be above zero. *)
Retrying(d) ==
  \/ driver[d].phase \in {"sleep", "resume"} /\ EndsOpen(messages)
  \/ driver[d].phase = "running" /\ pc \in {"poll", "turn", "request"}
  \/ driver[d].phase = "running" /\ pc = "finish" /\ lastAssistant.stop \in Errors
  \/ driver[d].phase = "post" /\ lastAssistant.stop \in Errors

Alone ==
  /\ \A d, e \in Drivers : driver[d].phase # "off" /\ driver[e].phase # "off" => d = e
  /\ pc \in {"poll", "request"} => EndsOpen(messages)
  /\ pc = "turn" /\ pending = <<>> => EndsOpen(messages)
  /\ pc \in {"results", "turnEnd"} /\ batch.started > 0 => EndsOpen(messages)
  /\ (pc = "finish" \/ Settling) /\ lastAssistant.stop \in Errors => EndsOnce(messages)
  /\ retryAttempt # 0 => \E d \in Drivers : Retrying(d)

AInv ==
  /\ Types /\ InsideFile /\ \A d \in Drivers : HoldsText(driver[d])
  /\ OnePlace /\ OnlySent /\ MirrorMatchesQueues /\ DeliveredOnce
  /\ OneRun /\ HasAnswer /\ Begun /\ Attended
  /\ (~overlapped => Alone)

-----------------------------------------------------------------------------
(* The queues. *)

LEMMA SplitAt ==
  ASSUME NEW q \in Seq(Texts), NEW k \in 0..Len(q)
  PROVE  LET a == SubSeq(q, 1, k)
             b == SubSeq(q, k + 1, Len(q))
         IN  /\ a \in Seq(Texts) /\ b \in Seq(Texts)
             /\ Len(a) = k
             /\ Range(a) \cup Range(b) = Range(q)
             /\ IsInjective(q) => /\ IsInjective(a) /\ IsInjective(b)
                                  /\ Range(a) \cap Range(b) = {}
<1> DEFINE n == Len(q)
           a == SubSeq(q, 1, k)
           b == SubSeq(q, k + 1, n)
<1>1. n \in Nat /\ k \in Nat /\ k <= n /\ DOMAIN q = 1..n /\ \A i \in 1..n : q[i] \in Texts
  BY LenProperties
<1>2. a = [i \in 1..k |-> q[i]] /\ a \in Seq(Texts) /\ Len(a) = k /\ DOMAIN a = 1..k
  BY <1>1
<1>3. b = [i \in 1..(n - k) |-> q[k + i]] /\ b \in Seq(Texts) /\ DOMAIN b = 1..(n - k)
  <2>1. b = [i \in 1..(n - k) |-> q[k + 1 + i - 1]]
    BY <1>1
  <2>2. \A i \in 1..(n - k) : k + 1 + i - 1 = k + i /\ k + i \in 1..n
    BY <1>1
  <2>3. b = [i \in 1..(n - k) |-> q[k + i]] /\ n - k \in Nat
    BY <1>1, <2>1, <2>2
  <2> QED
    BY <1>1, <2>2, <2>3
<1> HIDE DEF a, b, n
<1>4. \A i \in 1..n : \/ i \in DOMAIN a /\ a[i] = q[i]
                      \/ i - k \in DOMAIN b /\ b[i - k] = q[i]
  BY <1>1, <1>2, <1>3
<1>5. Range(a) \cup Range(b) = Range(q)
  <2>1. \A i \in DOMAIN a : i \in DOMAIN q /\ a[i] = q[i]
    BY <1>1, <1>2
  <2>2. \A i \in DOMAIN b : k + i \in DOMAIN q /\ b[i] = q[k + i]
    BY <1>1, <1>3
  <2>3. \A i \in DOMAIN q : \/ i \in DOMAIN a /\ a[i] = q[i]
                            \/ i - k \in DOMAIN b /\ b[i - k] = q[i]
    BY <1>1, <1>4
  <2> QED
    BY <2>1, <2>2, <2>3 DEF Range
<1>6. ASSUME IsInjective(q)
      PROVE  IsInjective(a) /\ IsInjective(b) /\ Range(a) \cap Range(b) = {}
  <2>1. \A i, j \in 1..n : q[i] = q[j] => i = j
    BY <1>1, <1>6 DEF IsInjective
  <2>2. IsInjective(a)
    BY <1>1, <1>2, <2>1 DEF IsInjective
  <2>3. IsInjective(b)
    <3>1. \A i, j \in 1..(n - k) : k + i \in 1..n /\ k + j \in 1..n /\ (k + i = k + j => i = j)
      BY <1>1
    <3> QED
      BY <1>3, <2>1, <3>1 DEF IsInjective
  <2>4. \A i \in 1..k, j \in 1..(n - k) : a[i] # b[j]
    BY <1>1, <1>2, <1>3, <2>1
  <2> QED
    BY <1>2, <1>3, <2>2, <2>3, <2>4 DEF Range
<1> QED
  BY <1>2, <1>3, <1>5, <1>6 DEF a, b, n

(* What drain takes and what it leaves. *)
LEMMA SplitQueue ==
  ASSUME NEW q \in Seq(Texts), NEW mode
  PROVE  /\ Drained(q, mode) \in Seq(Texts) /\ Left(q, mode) \in Seq(Texts)
         /\ Range(Drained(q, mode)) \cup Range(Left(q, mode)) = Range(q)
         /\ IsInjective(q) => /\ IsInjective(Drained(q, mode)) /\ IsInjective(Left(q, mode))
                              /\ Range(Drained(q, mode)) \cap Range(Left(q, mode)) = {}
         /\ q = <<>> => Drained(q, mode) = <<>>
         /\ q # <<>> => Drained(q, mode) # <<>>
<1> DEFINE k == IF mode = "all" THEN Len(q) ELSE IF q = <<>> THEN 0 ELSE 1
<1>1. k \in 0..Len(q) /\ (q = <<>> <=> k = 0)
  BY LenProperties, EmptySeq
<1>2. Drained(q, mode) = SubSeq(q, 1, k)
  <2>1. CASE mode = "all"
    <3>1. SubSeq(q, 1, Len(q)) = q
      OBVIOUS
    <3> QED
      BY <2>1, <3>1 DEF Drained
  <2>2. CASE mode # "all"
    BY <2>2 DEF Drained
  <2> QED
    BY <2>1, <2>2
<1> HIDE DEF k
<1>3. Len(Drained(q, mode)) = k
  BY <1>1, <1>2, SplitAt
<1>4. Left(q, mode) = SubSeq(q, k + 1, Len(q))
  BY <1>3 DEF Left
<1>5. Drained(q, mode) \in Seq(Texts)
  BY <1>1, <1>2, SplitAt
<1>6. Drained(q, mode) = <<>> <=> k = 0
  BY <1>1, <1>3, <1>5, EmptySeq
<1>7. /\ Left(q, mode) \in Seq(Texts)
      /\ Range(Drained(q, mode)) \cup Range(Left(q, mode)) = Range(q)
      /\ IsInjective(q) => /\ IsInjective(Drained(q, mode)) /\ IsInjective(Left(q, mode))
                           /\ Range(Drained(q, mode)) \cap Range(Left(q, mode)) = {}
  BY <1>1, <1>2, <1>4, SplitAt
<1> QED
  BY <1>1, <1>5, <1>6, <1>7

LEMMA AppendToQueue ==
  ASSUME NEW q \in Seq(Texts), NEW t \in Texts, t \notin Range(q), IsInjective(q)
  PROVE  /\ Append(q, t) \in Seq(Texts) /\ IsInjective(Append(q, t))
         /\ Range(Append(q, t)) = Range(q) \cup {t}
         /\ Append(q, t) # <<>>
<1> DEFINE c == Append(q, t)
           n == Len(q)
<1>1. /\ n \in Nat /\ DOMAIN q = 1..n /\ c \in Seq(Texts) /\ DOMAIN c = 1..(n + 1)
      /\ \A i \in 1..n : c[i] = q[i] /\ q[i] \in Range(q)
      /\ c[n + 1] = t /\ c # <<>>
  BY AppendProperties, LenProperties DEF Range
<1> HIDE DEF c, n
<1>2. \A i \in 1..(n + 1) : i \in 1..n \/ i = n + 1
  BY <1>1
<1>3. IsInjective(c)
  BY <1>1, <1>2 DEF IsInjective
<1>4. Range(c) = Range(q) \cup {t}
  <2>1. \A y \in Range(c) : y \in Range(q) \cup {t}
    BY <1>1, <1>2 DEF Range
  <2>2. 1..n \subseteq 1..(n + 1) /\ n + 1 \in 1..(n + 1)
    BY <1>1
  <2>3. Range(q) \subseteq Range(c) /\ t \in Range(c)
    BY <1>1, <2>2 DEF Range
  <2> QED
    BY <2>1, <2>3
<1> QED
  BY <1>1, <1>3, <1>4 DEF c

LEMMA EmptyQueue == Range(<<>>) = {} /\ IsInjective(<<>>) /\ <<>> \in Seq(Texts)
                    /\ \A q \in Seq(Texts) : Range(q) = {} <=> q = <<>>
<1>1. ASSUME NEW q \in Seq(Texts), q # <<>> PROVE Range(q) # {}
  <2>1. 1 \in DOMAIN q
    BY <1>1, EmptySeq, LenProperties
  <2> QED
    BY <2>1 DEF Range
<1> QED
  BY <1>1 DEF Range, IsInjective

-----------------------------------------------------------------------------
(* Messages that are appended, and what the listener of events makes of them. *)

(* A longer transcript: its length, its first and its last message. *)
LEMMA Longer ==
  ASSUME NEW p \in Seq(Messages), NEW x \in Seq(Messages)
  PROVE  /\ p \o x \in Seq(Messages)
         /\ Len(p \o x) = Len(p) + Len(x) /\ Len(p) \in Nat /\ Len(x) \in Nat
         /\ x = <<>> => p \o x = p
         /\ p # <<>> => p \o x # <<>> /\ (p \o x)[1] = p[1]
         /\ p = <<>> => p \o x = x
         /\ x # <<>> => p \o x # <<>> /\ (p \o x)[Len(p \o x)] = x[Len(x)]
<1> DEFINE n == Len(p)
           k == Len(x)
           c == p \o x
<1>1. /\ c \in Seq(Messages) /\ Len(c) = n + k /\ n \in Nat /\ k \in Nat
      /\ \A i \in 1..(n + k) : c[i] = IF i <= n THEN p[i] ELSE x[i - n]
  BY ConcatProperties, LenProperties
<1>2. (p # <<>> => n > 0) /\ (x # <<>> => k > 0) /\ Len(<<>>) = 0
  BY EmptySeq, LenProperties
<1>3. (x = <<>> => c = p) /\ (p = <<>> => c = x)
  BY ConcatEmptySeq
<1>4. p # <<>> => c # <<>> /\ c[1] = p[1]
  BY <1>1, <1>2
<1>5. x # <<>> => c # <<>> /\ c[n + k] = x[k]
  BY <1>1, <1>2
<1> QED
  BY <1>1, <1>3, <1>4, <1>5

LEMMA Reassociated ==
  \A p, x, y \in Seq(Messages) : (p \o x) \o y = p \o (x \o y)
BY ConcatAssociative

LEMMA OneMessage ==
  ASSUME NEW p \in Seq(Messages), NEW m \in Messages
  PROVE  /\ <<m>> \in Seq(Messages) /\ <<m>> # <<>> /\ Len(<<m>>) = 1 /\ <<m>>[1] = m
         /\ Append(p, m) = p \o <<m>>
<1>1. Append(p, m) = p \o <<m>>
  BY AppendIsConcat
<1> QED
  BY <1>1

LEMMA BashAre ==
  ASSUME NEW n \in Nat
  PROVE  /\ BashMessages(n) \in Seq(Messages)
         /\ Len(BashMessages(n)) = n
         /\ \A i \in 1..n : BashMessages(n)[i] = Bash
BY DEF BashMessages, Messages

LEMMA ResultsAre ==
  ASSUME NEW from \in Nat \ {0}, NEW to \in Nat, turns \in Nat, to >= from - 1
  PROVE  /\ Results(from, to) \in Seq(Messages)
         /\ Len(Results(from, to)) = to - from + 1
         /\ \A i \in 1..(to - from + 1) : Results(from, to)[i] \in ResultMessages
<1> DEFINE k == to - from + 1
<1>1. k \in Nat
  OBVIOUS
<1>2. \A i \in 1..k : from + i - 1 \in Nat
  OBVIOUS
<1>3. \A i \in 1..k : ToolResult(turns, from + i - 1) \in ResultMessages
  BY <1>2 DEF ToolResult, ResultMessages
<1>4. Results(from, to) = [i \in 1..k |-> ToolResult(turns, from + i - 1)]
  BY DEF Results
<1> HIDE DEF k
<1>5. \A i \in 1..k : ToolResult(turns, from + i - 1) \in Messages
  BY <1>3 DEF Messages
<1>6. Results(from, to) \in Seq(Messages) /\ Len(Results(from, to)) = k
  BY <1>1, <1>4, <1>5
<1> QED
  BY <1>3, <1>4, <1>6 DEF k

(* Neither users' messages nor answers. *)
Plain(x) == \A i \in 1..Len(x) : x[i] \notin UserMessages /\ x[i] \notin AnswerMessages

LEMMA PlainMessages ==
  /\ Plain(<<>>)
  /\ \A n \in Nat : Plain(BashMessages(n))
  /\ Plain(<<Bash>>)
  /\ \A from \in Nat \ {0}, to \in Nat : turns \in Nat /\ to >= from - 1 => Plain(Results(from, to))
<1>1. Bash \notin UserMessages /\ Bash \notin AnswerMessages
  BY RolesOf
<1>2. \A m \in ResultMessages : m \notin UserMessages /\ m \notin AnswerMessages
  BY RolesOf DEF SideMessages
<1>3. \A n \in Nat : Plain(BashMessages(n))
  BY <1>1, BashAre DEF Plain
<1>4. \A from \in Nat \ {0}, to \in Nat : turns \in Nat /\ to >= from - 1 => Plain(Results(from, to))
  BY <1>2, ResultsAre DEF Plain
<1> QED
  BY <1>1, <1>3, <1>4 DEF Plain

LEMMA NoAnswer ==
  ASSUME NEW x \in Seq(Messages), \A i \in 1..Len(x) : x[i] \notin AnswerMessages
  PROVE  NewestAnswer(x) = None
<1>1. \A i \in 1..Len(x) : ~IsAssistant(x[i])
  BY AnswerRole
<1>2. {i \in 1..Len(x) : IsAssistant(x[i])} = {}
  BY <1>1
<1> QED
  BY <1>2 DEF NewestAnswer, SelectLastInSeq

LEMMA OneAnswer ==
  ASSUME NEW m \in AnswerMessages
  PROVE  NewestAnswer(<<m>>) = m
<1>1. IsAssistant(m)
  BY RolesOf DEF IsAssistant
<1>2. {i \in 1..Len(<<m>>) : IsAssistant(<<m>>[i])} = {1}
  BY <1>1
<1>3. Max({1}) = 1
  BY DEF Max
<1>4. SelectLastInSeq(<<m>>, IsAssistant) = 1
  BY <1>2, <1>3 DEF SelectLastInSeq
<1> QED
  BY <1>4 DEF NewestAnswer

LEMMA EventPlain ==
  ASSUME NEW x \in Seq(Messages), Plain(x), handleAgentEvent(x)
  PROVE  /\ persisted' = persisted \o x
         /\ steeringTexts' = steeringTexts \ {} /\ followUpTexts' = followUpTexts \ {}
         /\ lastAssistant' = lastAssistant /\ retryAttempt' = retryAttempt
<1>1. TextsOf(x) = {}
  BY SideHasNoTexts DEF Plain
<1>2. NewestAnswer(x) = None
  BY NoAnswer DEF Plain
<1> QED
  BY <1>1, <1>2 DEF handleAgentEvent, Mirrored

LEMMA EventUsers ==
  ASSUME NEW ts \in Seq(Texts), handleAgentEvent(AsUsers(ts))
  PROVE  /\ persisted' = persisted \o AsUsers(ts)
         /\ steeringTexts' = steeringTexts \ Range(ts)
         /\ followUpTexts' = followUpTexts \ Range(ts)
         /\ lastAssistant' = lastAssistant /\ retryAttempt' = retryAttempt
<1>1. \A i \in 1..Len(AsUsers(ts)) : AsUsers(ts)[i] \notin AnswerMessages
  BY UsersOf, RolesOf
<1>2. NewestAnswer(AsUsers(ts)) = None
  BY <1>1, NoAnswer, UsersOf
<1> QED
  BY <1>2, UsersOf DEF handleAgentEvent, Mirrored

LEMMA EventAnswer ==
  ASSUME NEW m \in AnswerMessages, handleAgentEvent(<<m>>)
  PROVE  /\ persisted' = persisted \o <<m>>
         /\ steeringTexts' = steeringTexts \ {} /\ followUpTexts' = followUpTexts \ {}
         /\ lastAssistant' = m
         /\ retryAttempt' = IF m.stop \in Errors THEN retryAttempt ELSE 0
<1>1. m \in Messages /\ m \notin UserMessages /\ m # None
  BY RolesOf DEF Messages
<1>2. TextsOf(<<m>>) = {}
  BY <1>1, SideHasNoTexts
<1>3. NewestAnswer(<<m>>) = m
  BY OneAnswer
<1> QED
  BY <1>1, <1>2, <1>3 DEF handleAgentEvent, Mirrored

-----------------------------------------------------------------------------
(* The places of the texts. *)

Placed == OnePlace /\ OnlySent /\ MirrorMatchesQueues /\ DeliveredOnce

LEMMA TextsAreTexts ==
  ASSUME NEW p \in Seq(Messages)
  PROVE  TextsOf(p) \subseteq Texts
<1>1. \A m \in Range(p) : m \in Messages
  BY DEF Range
<1> QED
  BY <1>1, AnswerRole, RolesOf DEF TextsOf

(***************************************************************************)
(* The status of a text in the abstract specification MessageDelivery, as  *)
(* a function of the sets of texts that were sent, stored, given back, are *)
(* queued or drained, and are with a driver.                               *)
(***************************************************************************)
Where(t, sent, stored, returned, queued, held) ==
  CASE t \notin sent -> "new"
    [] t \in stored -> "delivered"
    [] t \in returned \ stored -> "returned"
    [] t \in queued \ (stored \cup returned) -> "queued"
    [] OTHER -> IF t \in held THEN "prompted" ELSE "refused"

Queued == Range(steering) \cup Range(followUp) \cup Range(pending)

Held == {driver[d].text : d \in Drivers}

LEMMA WhereIs ==
  ASSUME NEW t, NEW sent, NEW stored, NEW returned, NEW queued, NEW held,
         stored \cup returned \cup queued \subseteq sent
  PROVE  LET w == Where(t, sent, stored, returned, queued, held) IN
         /\ t \notin sent => w = "new"
         /\ t \in stored => w = "delivered"
         /\ t \in returned \ stored => w = "returned"
         /\ t \in queued \ (stored \cup returned) => w = "queued"
         /\ t \in sent \ (stored \cup returned \cup queued) =>
              w = IF t \in held THEN "prompted" ELSE "refused"
<1> DEFINE c1 == t \notin sent
           c2 == t \in stored
           c3 == t \in returned \ stored
           c4 == t \in queued \ (stored \cup returned)
           o == IF t \in held THEN "prompted" ELSE "refused"
           w == Where(t, sent, stored, returned, queued, held)
<1>1. w = CASE c1 -> "new" [] c2 -> "delivered" [] c3 -> "returned" [] c4 -> "queued" [] OTHER -> o
  BY DEF Where
<1>2. /\ ~(c1 /\ c2) /\ ~(c1 /\ c3) /\ ~(c1 /\ c4) /\ ~(c2 /\ c3) /\ ~(c2 /\ c4) /\ ~(c3 /\ c4)
      /\ t \in sent \ (stored \cup returned \cup queued) => ~c1 /\ ~c2 /\ ~c3 /\ ~c4
  OBVIOUS
<1> HIDE DEF c1, c2, c3, c4, o, w
<1>3. /\ c1 => w = "new"
      /\ c2 => w = "delivered"
      /\ c3 => w = "returned"
      /\ c4 => w = "queued"
      /\ ~c1 /\ ~c2 /\ ~c3 /\ ~c4 => w = o
  BY <1>1, <1>2
<1> QED
  BY <1>2, <1>3 DEF c1, c2, c3, c4, o, w

LEMMA StatusIsWhere ==
  /\ DeliveryStatus = [t \in Texts |->
       Where(t, used, TextsOf(persisted), cleared, Queued, Held)]
  /\ DeliveryStatus' = [t \in Texts |->
       Where(t, used', TextsOf(persisted'), cleared', Queued', Held')]
<1>1. DeliveryStatus = [t \in Texts |->
       Where(t, used, TextsOf(persisted), cleared, Queued, Held)]
  BY DEF DeliveryStatus, Where, Queued, Held
<1>2. DeliveryStatus' = [t \in Texts |->
       Where(t, used', TextsOf(persisted'), cleared', Queued', Held')]
  BY DEF DeliveryStatus, Where, Queued, Held, TextsOf
<1> QED
  BY <1>1, <1>2

(* A step that is one of MessageDelivery or leaves every text where it is. *)
StatusStep == [Delivery!Next]_DeliveryStatus

Legal(from, to) ==
  \/ from = {"new"} /\ to \in {"prompted", "queued"}
  \/ from = {"prompted", "queued", "returned"} /\ to = "delivered"
  \/ from = {"queued"} /\ to = "returned"
  \/ from = {"prompted"} /\ to = "refused"

LEMMA StatusMoves ==
  ASSUME NEW T \in SUBSET Texts, NEW from, NEW to,
         \A t \in T : DeliveryStatus[t] \in from /\ DeliveryStatus'[t] = to,
         \A t \in Texts \ T : DeliveryStatus'[t] = DeliveryStatus[t],
         Legal(from, to)
  PROVE  StatusStep
<1>1. DeliveryStatus' = [t \in Texts |-> IF t \in T THEN to ELSE DeliveryStatus[t]]
  <2>1. DeliveryStatus' = [t \in Texts |-> DeliveryStatus'[t]]
    BY StatusIsWhere
  <2> QED
    BY <2>1
<1>2. CASE T = {}
  <2>1. DeliveryStatus = [t \in Texts |-> DeliveryStatus[t]]
    BY StatusIsWhere
  <2>2. DeliveryStatus' = DeliveryStatus
    BY <1>1, <1>2, <2>1
  <2> QED
    BY <2>2 DEF StatusStep
<1>3. CASE T # {}
  <2>1. Delivery!Move(from, to)
    BY <1>1, <1>3 DEF Delivery!Move
  <2> QED
    BY <2>1 DEF Legal, StatusStep, Delivery!Next, Delivery!Send, Delivery!Deliver, Delivery!GiveBack,
                Delivery!Refuse, Delivery!Accepted
<1> QED
  BY <1>2, <1>3

(* The places of the texts before and after a step that keeps the invariants. *)
LEMMA WhereBeforeAfter ==
  ASSUME OnlySent, OnlySent', NEW t \in Texts
  PROVE  LET P == TextsOf(persisted)
             P2 == TextsOf(persisted')
         IN
         /\ t \notin used => DeliveryStatus[t] = "new"
         /\ t \in P => DeliveryStatus[t] = "delivered"
         /\ t \in cleared \ P => DeliveryStatus[t] = "returned"
         /\ t \in Queued \ (P \cup cleared) => DeliveryStatus[t] = "queued"
         /\ t \in used \ (P \cup cleared \cup Queued) =>
              DeliveryStatus[t] = IF t \in Held THEN "prompted" ELSE "refused"
         /\ t \notin used' => DeliveryStatus'[t] = "new"
         /\ t \in P2 => DeliveryStatus'[t] = "delivered"
         /\ t \in cleared' \ P2 => DeliveryStatus'[t] = "returned"
         /\ t \in Queued' \ (P2 \cup cleared') => DeliveryStatus'[t] = "queued"
         /\ t \in used' \ (P2 \cup cleared' \cup Queued') =>
              DeliveryStatus'[t] = IF t \in Held' THEN "prompted" ELSE "refused"
<1> DEFINE P == TextsOf(persisted)
           P2 == TextsOf(persisted')
<1>1. P \cup cleared \cup Queued \subseteq used
  BY DEF OnlySent, Queued
<1>2. P2 \cup cleared' \cup Queued' \subseteq used'
  BY DEF OnlySent, Queued, TextsOf
<1>3. /\ DeliveryStatus[t] = Where(t, used, P, cleared, Queued, Held)
      /\ DeliveryStatus'[t] = Where(t, used', P2, cleared', Queued', Held')
  BY StatusIsWhere
<1> HIDE DEF P, P2
<1>4. /\ t \notin used => DeliveryStatus[t] = "new"
      /\ t \in P => DeliveryStatus[t] = "delivered"
      /\ t \in cleared \ P => DeliveryStatus[t] = "returned"
      /\ t \in Queued \ (P \cup cleared) => DeliveryStatus[t] = "queued"
      /\ t \in used \ (P \cup cleared \cup Queued) =>
           DeliveryStatus[t] = IF t \in Held THEN "prompted" ELSE "refused"
  BY <1>1, <1>3, WhereIs
<1>5. /\ t \notin used' => DeliveryStatus'[t] = "new"
      /\ t \in P2 => DeliveryStatus'[t] = "delivered"
      /\ t \in cleared' \ P2 => DeliveryStatus'[t] = "returned"
      /\ t \in Queued' \ (P2 \cup cleared') => DeliveryStatus'[t] = "queued"
      /\ t \in used' \ (P2 \cup cleared' \cup Queued') =>
           DeliveryStatus'[t] = IF t \in Held' THEN "prompted" ELSE "refused"
  BY <1>2, <1>3, WhereIs
<1> QED
  BY <1>4, <1>5 DEF P, P2

(* No text goes anywhere. *)
LEMMA StatusSame ==
  ASSUME used' = used, cleared' = cleared, TextsOf(persisted') = TextsOf(persisted),
         Queued' = Queued, Held' = Held
  PROVE  StatusStep
<1>1. DeliveryStatus' = DeliveryStatus
  BY StatusIsWhere
<1> QED
  BY <1>1 DEF StatusStep

(* The texts T are stored: they were queued, drained or with a driver. *)
LEMMA StatusDelivered ==
  ASSUME OnlySent, OnlySent', NEW T \in SUBSET Texts,
         used' = used, cleared' = cleared,
         TextsOf(persisted') = TextsOf(persisted) \cup T, T \cap TextsOf(persisted) = {},
         T \subseteq Queued \cup Held, T \subseteq used, Queued' = Queued \ T,
         \A t \in Texts \ T : t \in Held' <=> t \in Held
  PROVE  StatusStep
<1> DEFINE P == TextsOf(persisted)
           P2 == TextsOf(persisted')
<1>1. ASSUME NEW t \in T
      PROVE  /\ DeliveryStatus[t] \in {"prompted", "queued", "returned"}
             /\ DeliveryStatus'[t] = "delivered"
  <2>1. t \in Texts /\ t \in used /\ t \notin P /\ t \in P2
    BY <1>1
  <2>2. DeliveryStatus'[t] = "delivered"
    BY <2>1, WhereBeforeAfter
  <2>3. DeliveryStatus[t] \in {"prompted", "queued", "returned"}
    BY <1>1, <2>1, WhereBeforeAfter
  <2> QED
    BY <2>2, <2>3
<1>2. ASSUME NEW t \in Texts \ T PROVE DeliveryStatus'[t] = DeliveryStatus[t]
  BY <1>2, WhereBeforeAfter
<1>3. \A t \in T : DeliveryStatus[t] \in {"prompted", "queued", "returned"}
                   /\ DeliveryStatus'[t] = "delivered"
  BY <1>1
<1>4. \A t \in Texts \ T : DeliveryStatus'[t] = DeliveryStatus[t]
  BY <1>2
<1>5. Legal({"prompted", "queued", "returned"}, "delivered")
  BY DEF Legal
<1> QED
  BY <1>3, <1>4, <1>5, StatusMoves

(* A text t is sent. *)
LEMMA StatusSent ==
  ASSUME OnlySent, OnlySent', NEW t \in Texts, t \notin used, used' = used \cup {t},
         cleared' = cleared, TextsOf(persisted') = TextsOf(persisted),
         \A v \in Texts \ {t} : v \in Queued' <=> v \in Queued,
         \A v \in Texts \ {t} : v \in Held' <=> v \in Held,
         t \in Queued' \/ t \in Held'
  PROVE  StatusStep
<1>1. t \notin TextsOf(persisted) \cup cleared
  BY DEF OnlySent
<1>2. \A v \in Texts \ {t} : DeliveryStatus'[v] = DeliveryStatus[v]
  <2>1. ASSUME NEW v \in Texts \ {t} PROVE DeliveryStatus'[v] = DeliveryStatus[v]
    BY <2>1, WhereBeforeAfter
  <2> QED
    BY <2>1
<1>3. DeliveryStatus[t] = "new" /\ DeliveryStatus'[t] \in {"prompted", "queued"}
  BY <1>1, WhereBeforeAfter
<1>4. {t} \in SUBSET Texts /\ \A v \in {t} : DeliveryStatus[v] \in {"new"}
                                            /\ DeliveryStatus'[v] = DeliveryStatus'[t]
  BY <1>3
<1>5. Legal({"new"}, DeliveryStatus'[t])
  BY <1>3 DEF Legal
<1> QED
  BY <1>2, <1>4, <1>5, StatusMoves

(* A driver lets go of its text. *)
LEMMA StatusRefused ==
  ASSUME OnlySent, OnlySent', NEW T \in SUBSET Texts,
         used' = used, cleared' = cleared, TextsOf(persisted') = TextsOf(persisted),
         Queued' = Queued, T \subseteq Held,
         T \cap (TextsOf(persisted) \cup cleared \cup Queued) = {}, T \subseteq used,
         \A v \in Texts : v \in Held' <=> v \in Held \ T
  PROVE  StatusStep
<1>1. \A v \in T : DeliveryStatus[v] \in {"prompted"} /\ DeliveryStatus'[v] = "refused"
  <2>1. ASSUME NEW v \in T PROVE DeliveryStatus[v] = "prompted" /\ DeliveryStatus'[v] = "refused"
    <3>1. v \in Texts /\ v \in used \ (TextsOf(persisted) \cup cleared \cup Queued)
          /\ v \in Held /\ v \notin Held'
      BY <2>1
    <3> QED
      BY <3>1, WhereBeforeAfter
  <2> QED
    BY <2>1
<1>2. \A v \in Texts \ T : DeliveryStatus'[v] = DeliveryStatus[v]
  <2>1. ASSUME NEW v \in Texts \ T PROVE DeliveryStatus'[v] = DeliveryStatus[v]
    BY <2>1, WhereBeforeAfter
  <2> QED
    BY <2>1
<1>3. Legal({"prompted"}, "refused")
  BY DEF Legal
<1> QED
  BY <1>1, <1>2, <1>3, StatusMoves

(* The texts T are given back. *)
LEMMA StatusReturned ==
  ASSUME OnlySent, OnlySent', NEW T \in SUBSET Texts,
         used' = used, cleared' = cleared \cup T, TextsOf(persisted') = TextsOf(persisted),
         T \subseteq Queued \ cleared, Queued \cap TextsOf(persisted) = {},
         Queued' \subseteq Queued, Queued \subseteq cleared \cup T, Held' = Held
  PROVE  StatusStep
<1>1. \A v \in T : DeliveryStatus[v] \in {"queued"} /\ DeliveryStatus'[v] = "returned"
  <2>1. ASSUME NEW v \in T PROVE DeliveryStatus[v] = "queued" /\ DeliveryStatus'[v] = "returned"
    <3>1. v \in Texts /\ v \in Queued \ (TextsOf(persisted) \cup cleared)
          /\ v \in cleared' \ TextsOf(persisted')
      BY <2>1
    <3> QED
      BY <3>1, WhereBeforeAfter
  <2> QED
    BY <2>1
<1>2. \A v \in Texts \ T : DeliveryStatus'[v] = DeliveryStatus[v]
  <2>1. ASSUME NEW v \in Texts \ T PROVE DeliveryStatus'[v] = DeliveryStatus[v]
    BY <2>1, WhereBeforeAfter
  <2> QED
    BY <2>1
<1>3. Legal({"queued"}, "returned")
  BY DEF Legal
<1> QED
  BY <1>1, <1>2, <1>3, StatusMoves

-----------------------------------------------------------------------------
(* The steps that move texts. *)

(* The messages x join the session file; their texts leave the queues, the *)
(* mirrors and the drivers.                                                 *)
Delivers(x) ==
  /\ persisted' = persisted \o x /\ Once(x)
  /\ TextsOf(x) \cap TextsOf(persisted) = {} /\ TextsOf(x) \subseteq used
  /\ IsInjective(steering') /\ Range(steering') = Range(steering) \ TextsOf(x)
  /\ IsInjective(followUp') /\ Range(followUp') = Range(followUp) \ TextsOf(x)
  /\ IsInjective(pending') /\ Range(pending') = Range(pending) \ TextsOf(x)
  /\ steeringTexts' \cup followUpTexts' = (steeringTexts \cup followUpTexts) \ TextsOf(x)
  /\ used' = used /\ cleared' = cleared
  /\ \A d \in Drivers : /\ driver'[d].text \in {driver[d].text, None}
                        /\ driver'[d].text \notin TextsOf(x)
  /\ pc' # "turn" => pending' = <<>>
  /\ TextsOf(x) \subseteq Queued \cup Held
  /\ TextsOf(x) # {} =>
       \A d \in Drivers : driver[d].text \in TextsOf(x) \/ driver'[d].text = driver[d].text

LEMMA DeliveringKeepsPlaces ==
  ASSUME Types, Placed, NEW x \in Seq(Messages), Delivers(x)
  PROVE  Placed' /\ StatusStep
<1> DEFINE T == TextsOf(x)
           P == TextsOf(persisted)
           S == Range(steering)
           F == Range(followUp)
           N == Range(pending)
           M == steeringTexts \cup followUpTexts
<1>1. TextsOf(persisted') = P \cup T
  BY TextsOfConcat DEF Delivers, Types
<1>2. None \notin P \cup T \cup S \cup F \cup N \cup used
  <2>1. P \subseteq Texts /\ T \subseteq Texts
    BY TextsAreTexts DEF Types
  <2>2. S \cup F \cup N \cup used \subseteq Texts
    BY DEF Types, Range
  <2> QED
    BY <2>1, <2>2, NoneAssumption
<1>3. /\ Range(steering') = S \ T /\ Range(followUp') = F \ T /\ Range(pending') = N \ T
      /\ steeringTexts' \cup followUpTexts' = M \ T
      /\ used' = used /\ cleared' = cleared
      /\ T \cap P = {} /\ T \subseteq used
  BY DEF Delivers
<1>4. /\ S \cap F = {} /\ N \cap (S \cup F) = {} /\ P \cap (S \cup F \cup N) = {}
      /\ S \cup F \cup N \cup P \cup cleared \subseteq used
      /\ cleared \cap (S \cup F) = {}
      /\ M = S \cup F \cup (N \ cleared)
  BY DEF Placed, OnePlace, OnlySent, MirrorMatchesQueues
<1>5. /\ \A d \in Drivers : /\ driver'[d].text \in {driver[d].text, None}
                            /\ driver'[d].text \notin T
                            /\ driver[d].text \notin S \cup F \cup N \cup P \cup cleared
                            /\ driver[d].text \in used \cup {None}
      /\ \A d, e \in Drivers : driver[d].text = driver[e].text /\ driver[d].text # None => d = e
  BY DEF Placed, OnePlace, OnlySent, Delivers
<1>6. None \notin cleared
  BY <1>2, <1>4
<1>7. IsInjective(steering') /\ IsInjective(followUp') /\ IsInjective(pending')
      /\ (pc' # "turn" => pending' = <<>>)
  BY DEF Delivers
<1>8. DeliveredOnce'
  <2>1. Once(persisted)
    BY DEF Placed, DeliveredOnce, Once
  <2>2. Once(persisted \o x)
    BY <1>3, <2>1, OnceConcat DEF Types, Delivers
  <2> QED
    BY <2>2 DEF DeliveredOnce, Once, Delivers
<1>12. /\ T \subseteq Queued \cup Held /\ P \cup T \subseteq Texts /\ used \subseteq Texts
       /\ \A d \in Drivers : T # {} => driver[d].text \in T \/ driver'[d].text = driver[d].text
       /\ Queued = S \cup F \cup N
  <2>1. P \cup T \subseteq Texts
    BY TextsAreTexts DEF Types
  <2> QED
    BY <2>1 DEF Delivers, Types, Queued
<1> HIDE DEF T, P, S, F, N, M
<1>9. OnePlace'
  <2>1. \A d \in Drivers : driver'[d].text \notin (S \ T) \cup (F \ T) \cup (N \ T) \cup (P \cup T)
    BY <1>2, <1>5
  <2>2. \A d, e \in Drivers : driver'[d].text = driver'[e].text /\ driver'[d].text # None => d = e
    BY <1>5
  <2>3. /\ (S \ T) \cap (F \ T) = {} /\ (N \ T) \cap ((S \ T) \cup (F \ T)) = {}
        /\ (P \cup T) \cap ((S \ T) \cup (F \ T) \cup (N \ T)) = {}
    BY <1>4
  <2> QED
    BY <1>1, <1>3, <1>7, <2>1, <2>2, <2>3 DEF OnePlace
<1>10. OnlySent'
  <2>1. \A d \in Drivers : driver'[d].text \notin cleared /\ driver'[d].text \in used \cup {None}
    BY <1>5, <1>6
  <2>2. /\ (S \ T) \cup (F \ T) \cup (N \ T) \cup (P \cup T) \cup cleared \subseteq used
        /\ cleared \cap ((S \ T) \cup (F \ T)) = {}
    BY <1>3, <1>4
  <2> QED
    BY <1>1, <1>3, <1>7, <2>1, <2>2 DEF OnlySent
<1>11. MirrorMatchesQueues'
  <2>1. M \ T = (S \ T) \cup (F \ T) \cup ((N \ T) \ cleared)
    BY <1>4
  <2> QED
    BY <1>3, <2>1 DEF MirrorMatchesQueues
<1>13. StatusStep
  <2>1. Queued' = Queued \ T
    BY <1>3, <1>12 DEF Queued
  <2>2. TextsOf(persisted) = P
    BY DEF P
  <2>3. T \in SUBSET Texts
    BY <1>12
  <2>4. OnlySent
    BY DEF Placed
  <2>5. CASE T # {}
    <3>1. \A v \in Texts \ T : v \in Held' <=> v \in Held
      BY <1>5, <1>12, <2>5, NoneAssumption DEF Held
    <3> QED
      BY <1>1, <1>3, <1>10, <1>12, <2>1, <2>2, <2>3, <2>4, <3>1, StatusDelivered
  <2>6. CASE T = {}
    <3> DEFINE R == {v \in Texts : v \in Held /\ v \notin Held'}
    <3>1. R \in SUBSET Texts /\ R \subseteq Held
      OBVIOUS
    <3>2. R \cap (P \cup cleared \cup Queued) = {} /\ R \subseteq used
      BY <1>5, <1>12, NoneAssumption DEF Held
    <3>3. \A v \in Texts : v \in Held' => v \in Held
      BY <1>5, NoneAssumption DEF Held
    <3>4. \A v \in Texts : v \in Held' <=> v \in Held \ R
      BY <3>3
    <3>5. Queued' = Queued /\ TextsOf(persisted') = P
      BY <1>1, <2>1, <2>6
    <3> HIDE DEF R
    <3> QED
      BY <1>3, <1>10, <2>2, <2>4, <3>1, <3>2, <3>4, <3>5, StatusRefused
  <2> QED
    BY <2>5, <2>6
<1> QED
  BY <1>8, <1>9, <1>10, <1>11, <1>13 DEF Placed

(* Steps that deliver no text and touch no queue. *)
LeavesQueues ==
  /\ UNCHANGED <<steering, followUp, pending, used, cleared>>
  /\ steeringTexts' \cup followUpTexts' = steeringTexts \cup followUpTexts
  /\ \A d \in Drivers : driver'[d].text \in {driver[d].text, None}
  /\ pc = "turn" => pc' = "turn"

LEMMA LeavingKeepsPlaces ==
  ASSUME Types, Placed, LeavesQueues, NEW x \in Seq(Messages),
         \A i \in 1..Len(x) : x[i] \notin UserMessages, persisted' = persisted \o x
  PROVE  Placed' /\ StatusStep
<1>1. TextsOf(x) = {} /\ Once(x)
  BY SideHasNoTexts, OnceSide
<1>2. Delivers(x)
  <2>1. IsInjective(steering') /\ IsInjective(followUp') /\ IsInjective(pending')
    BY DEF LeavesQueues, Placed, OnePlace
  <2>2. pc' # "turn" => pending' = <<>>
    BY DEF LeavesQueues, Placed, OnlySent
  <2> QED
    BY <1>1, <2>1, <2>2 DEF Delivers, LeavesQueues
<1> QED
  BY <1>2, DeliveringKeepsPlaces

(* A poll moves texts from one queue to the drained messages. *)
Polls(from, to, rest) ==
  /\ IsInjective(to) /\ IsInjective(rest)
  /\ Range(to) \cup Range(rest) = Range(from) /\ Range(to) \cap Range(rest) = {}
  /\ pending = <<>> /\ pending' = to
  /\ UNCHANGED <<persisted, used, cleared, driver>>
  /\ steeringTexts' \cup followUpTexts' = steeringTexts \cup followUpTexts
  /\ pc' # "turn" => to = <<>>

LEMMA PollingKeepsPlaces ==
  ASSUME Placed, NEW to, NEW rest,
         \/ Polls(steering, to, rest) /\ steering' = rest /\ followUp' = followUp
         \/ Polls(followUp, to, rest) /\ followUp' = rest /\ steering' = steering
  PROVE  Placed' /\ StatusStep
<1> DEFINE P == TextsOf(persisted)
           S == Range(steering)
           F == Range(followUp)
           S2 == Range(steering')
           F2 == Range(followUp')
           N2 == Range(pending')
           M == steeringTexts \cup followUpTexts
           M2 == (steeringTexts \cup followUpTexts)'
<1>1. /\ S2 \cup F2 \cup N2 = S \cup F /\ S2 \subseteq S /\ F2 \subseteq F
      /\ S2 \cap N2 = {} /\ F2 \cap N2 = {}
  BY DEF Polls, Placed, OnePlace
<1>2. /\ S \cap F = {} /\ P \cap (S \cup F) = {}
      /\ S \cup F \cup P \cup cleared \subseteq used
      /\ cleared \cap (S \cup F) = {}
      /\ M = S \cup F
  BY EmptyQueue DEF Placed, OnePlace, OnlySent, MirrorMatchesQueues, Polls
<1>3. M2 = M /\ UNCHANGED <<persisted, used, cleared, driver>> /\ TextsOf(persisted)' = P
  BY DEF Polls
<1>4. IsInjective(steering') /\ IsInjective(followUp') /\ IsInjective(pending')
      /\ (pc' # "turn" => pending' = <<>>)
  BY DEF Polls, Placed, OnePlace
<1>5. /\ \A d \in Drivers : /\ driver[d].text \notin S \cup F \cup P
                            /\ driver[d].text \notin cleared
                            /\ driver[d].text \in used \cup {None}
      /\ \A d, e \in Drivers : driver[d].text = driver[e].text /\ driver[d].text # None => d = e
  BY DEF Placed, OnePlace, OnlySent
<1> HIDE DEF P, S, F, S2, F2, N2, M, M2
<1>6. /\ S2 \cap F2 = {} /\ N2 \cap (S2 \cup F2) = {} /\ P \cap (S2 \cup F2 \cup N2) = {}
      /\ S2 \cup F2 \cup N2 \cup P \cup cleared \subseteq used
      /\ cleared \cap (S2 \cup F2) = {}
      /\ M = S2 \cup F2 \cup (N2 \ cleared)
      /\ \A d \in Drivers : driver[d].text \notin S2 \cup F2 \cup N2 \cup P
  BY <1>1, <1>2, <1>5
<1>7. OnePlace'
  BY <1>3, <1>4, <1>5, <1>6 DEF OnePlace, S2, F2, N2
<1>8. OnlySent'
  BY <1>3, <1>4, <1>5, <1>6 DEF OnlySent, S2, F2, N2
<1>9. MirrorMatchesQueues'
  BY <1>3, <1>6 DEF MirrorMatchesQueues, S2, F2, N2, M2
<1>10. DeliveredOnce'
  BY <1>3 DEF DeliveredOnce, Placed
<1>11. StatusStep
  <2>1. Range(pending) = {}
    BY EmptyQueue DEF Polls
  <2>2. Queued' = Queued
    BY <1>1, <2>1 DEF Queued, S, F, S2, F2, N2
  <2>3. TextsOf(persisted') = TextsOf(persisted)
    BY <1>3
  <2>4. Held' = Held
    BY <1>3 DEF Held
  <2> QED
    BY <1>3, <2>2, <2>3, <2>4, StatusSame
<1> QED
  BY <1>7, <1>8, <1>9, <1>10, <1>11 DEF Placed

-----------------------------------------------------------------------------
(* What the steps of the loop amount to. *)

BatchOK(b) ==
  /\ DOMAIN b = {"mode", "calls", "started", "status"}
  /\ b.calls \in Nat /\ b.started \in Nat

(* Tools are prepared, finish, and their results x are emitted. *)
ToolStep(x) ==
  /\ x \in Seq(Messages) /\ Plain(x)
  /\ messages' = messages \o x /\ persisted' = persisted \o x
  /\ pc \in {"preflight", "execute", "results"}
  /\ pc' \in {"preflight", "execute", "results", "turnEnd"}
  /\ pc' = "results" /\ batch'.started > 0 => x # <<>>
  /\ pc' = "turnEnd" => pc = "results" /\ x = <<>> /\ batch' = batch
  /\ BatchOK(batch')
  /\ UNCHANGED <<steering, followUp, pending, turns, lastAssistant, retryAttempt>>
  /\ steeringTexts' \cup followUpTexts' = steeringTexts \cup followUpTexts

(* The answer m arrives. *)
AnswerStep(m) ==
  /\ m \in AnswerMessages
  /\ messages' = messages \o <<m>> /\ persisted' = persisted \o <<m>>
  /\ pc = "request" /\ pc' \in {"finish", "preflight", "turnEnd"}
  /\ m.stop \in Errors => pc' = "finish"
  /\ pc' = "turnEnd" => batch'.started = 0
  /\ BatchOK(batch') /\ turns' \in Nat
  /\ lastAssistant' = m
  /\ retryAttempt' = IF m.stop \in Errors THEN retryAttempt ELSE 0
  /\ UNCHANGED <<steering, followUp, pending>>
  /\ steeringTexts' \cup followUpTexts' = steeringTexts \cup followUpTexts

(* A queue is polled: `to' is taken, `rest' stays. *)
PollStep(to, rest) ==
  /\ to \in Seq(Texts) /\ rest \in Seq(Texts)
  /\ \/ Polls(steering, to, rest) /\ steering' = rest /\ followUp' = followUp
     \/ Polls(followUp, to, rest) /\ followUp' = rest /\ steering' = steering
  /\ \/ pc = "poll" /\ pc' = "turn"
     \/ pc = "turnEnd" /\ pc' = "turn" /\ (to # <<>> \/ batch.started > 0)
     \/ pc = "turnEnd" /\ pc' = "followUps"
     \/ pc = "followUps" /\ pc' = "turn" /\ to # <<>>
     \/ pc = "followUps" /\ pc' = "finish"
  /\ BatchOK(batch')
  /\ UNCHANGED <<messages, turns, lastAssistant, retryAttempt>>

(* The drained messages are delivered. *)
TurnStep ==
  /\ pc = "turn" /\ pc' = "request"
  /\ messages' = messages \o AsUsers(pending) /\ persisted' = persisted \o AsUsers(pending)
  /\ pending' = <<>>
  /\ steeringTexts' = steeringTexts \ Range(pending)
  /\ followUpTexts' = followUpTexts \ Range(pending)
  /\ UNCHANGED <<steering, followUp, batch, turns, lastAssistant, retryAttempt>>

LEMMA ToolSteps ==
  ASSUME Types, handleAgentEvent(NewMessages),
         prepareToolCall \/ finalizeExecutedToolCall \/ emitSequentialResult
           \/ emitParallelResults \/ processToolCallsAndResults
  PROVE  \E x : ToolStep(x)
<1>1. turns \in Nat /\ messages \in Seq(Messages) /\ BatchOK(batch) /\ <<>> \in Seq(Messages)
  BY DEF Types, BatchOK
<1>2. ASSUME NEW x \in Seq(Messages), Plain(x), messages' = messages \o x
      PROVE  /\ persisted' = persisted \o x
             /\ UNCHANGED <<lastAssistant, retryAttempt>>
             /\ steeringTexts' \cup followUpTexts' = steeringTexts \cup followUpTexts
  <2>1. NewMessages = x
    BY <1>1, <1>2, NewMessagesAre
  <2>2. handleAgentEvent(x)
    BY <2>1
  <2> QED
    BY <1>2, <2>2, EventPlain
<1>3. ASSUME messages' = messages PROVE messages' = messages \o <<>>
  BY <1>1, <1>3, ConcatEmptySeq
<1>4. Plain(<<>>)
  BY PlainMessages
<1>5. CASE prepareToolCall
  <2>1. PICK outcome : batch' = [batch EXCEPT !.started = @ + 1,
                                              !.status[batch.started + 1] = outcome]
    BY <1>5 DEF prepareToolCall
  <2>2. BatchOK(batch')
    BY <1>1, <2>1 DEF BatchOK
  <2>3. ToolStep(<<>>)
    BY <1>1, <1>2, <1>3, <1>4, <1>5, <2>2 DEF prepareToolCall, ToolStep
  <2> QED
    BY <2>3
<1>6. CASE finalizeExecutedToolCall
  <2>1. PICK k, outcome : batch' = [batch EXCEPT !.status[k] = outcome]
    BY <1>6 DEF finalizeExecutedToolCall
  <2>2. BatchOK(batch')
    BY <1>1, <2>1 DEF BatchOK
  <2>3. ToolStep(<<>>)
    BY <1>1, <1>2, <1>3, <1>4, <1>6, <2>2 DEF finalizeExecutedToolCall, ToolStep
  <2> QED
    BY <2>3
<1>7. CASE emitSequentialResult
  <2> DEFINE n == batch.started
             x == Results(n, n)
  <2>1. n \in Nat
    BY <1>1 DEF BatchOK
  <2>2. x \in Seq(Messages) /\ Len(x) = 1 /\ Plain(x)
    <3>1. x = [i \in 1..1 |-> ToolResult(turns, n + i - 1)]
      BY <2>1 DEF Results
    <3>2. \A i \in 1..1 : ToolResult(turns, n + i - 1) \in ResultMessages
      BY <1>1, <2>1 DEF ToolResult, ResultMessages
    <3>3. x \in Seq(ResultMessages) /\ Len(x) = 1
      BY <3>1, <3>2
    <3>4. x \in Seq(Messages)
      BY <3>3 DEF Messages
    <3> QED
      BY <3>3, <3>4, RolesOf DEF Plain, SideMessages
  <2>4. messages' = messages \o x /\ batch' = batch
    BY <1>7 DEF emitSequentialResult
  <2> HIDE DEF x
  <2>5. x # <<>>
    BY <2>2
  <2>6. ToolStep(x)
    BY <1>1, <1>2, <1>7, <2>2, <2>4, <2>5 DEF emitSequentialResult, ToolStep
  <2> QED
    BY <2>6
<1>8. CASE emitParallelResults
  <2> DEFINE n == batch.started
             x == Results(1, n)
  <2>1. n \in Nat
    BY <1>1 DEF BatchOK
  <2>2. x \in Seq(Messages) /\ Len(x) = n /\ Plain(x)
    <3>1. n >= 1 - 1 /\ n - 1 + 1 = n /\ 1 \in Nat \ {0}
      BY <2>1
    <3>2. x \in Seq(Messages) /\ Len(x) = n - 1 + 1
      BY <1>1, <2>1, <3>1, ResultsAre
    <3>3. Plain(x)
      BY <1>1, <2>1, <3>1, PlainMessages
    <3> QED
      BY <3>1, <3>2, <3>3
  <2>3. messages' = messages \o x /\ batch' = batch
    BY <1>8 DEF emitParallelResults
  <2>4. batch'.started > 0 => x # <<>>
    BY <2>1, <2>2, <2>3
  <2> HIDE DEF x
  <2>5. ToolStep(x)
    BY <1>1, <1>2, <1>8, <2>2, <2>3, <2>4 DEF emitParallelResults, ToolStep
  <2> QED
    BY <2>5
<1>9. CASE processToolCallsAndResults
  <2>1. ToolStep(<<>>)
    BY <1>1, <1>2, <1>3, <1>4, <1>9 DEF processToolCallsAndResults, ToolStep
  <2> QED
    BY <2>1
<1> QED
  BY <1>5, <1>6, <1>7, <1>8, <1>9

LEMMA AnswerSteps ==
  ASSUME Types, handleAgentEvent(NewMessages), streamAssistantResponse \/ handleRunFailure
  PROVE  \E m : AnswerStep(m)
<1>1. turns \in Nat /\ messages \in Seq(Messages) /\ BatchOK(batch)
  BY DEF Types, BatchOK
<1>2. ASSUME NEW m \in AnswerMessages, messages' = Append(messages, m)
      PROVE  /\ messages' = messages \o <<m>> /\ persisted' = persisted \o <<m>>
             /\ lastAssistant' = m
             /\ retryAttempt' = IF m.stop \in Errors THEN retryAttempt ELSE 0
             /\ steeringTexts' \cup followUpTexts' = steeringTexts \cup followUpTexts
  <2>1. m \in Messages
    BY DEF Messages
  <2>2. messages' = messages \o <<m>> /\ <<m>> \in Seq(Messages)
    BY <1>1, <1>2, <2>1, OneMessage
  <2>3. NewMessages = <<m>>
    BY <1>1, <2>2, NewMessagesAre
  <2>4. handleAgentEvent(<<m>>)
    BY <2>3
  <2> QED
    BY <2>2, <2>4, EventAnswer
<1>3. CASE streamAssistantResponse
  <2>1. PICK a \in Answers :
           LET m == Assistant(turns + 1, a[1], a[2]) IN
           /\ messages' = Append(messages, m)
           /\ pc' = CASE a[1] \in Failed -> "finish"
                      [] a[2] > 0 -> "preflight"
                      [] OTHER -> "turnEnd"
           /\ \E mode \in IF a[2] > 0 THEN {"sequential", "parallel"} ELSE {"parallel"} :
                batch' = [mode |-> mode, calls |-> a[2], started |-> 0,
                          status |-> [k \in 1..a[2] |-> "none"]]
    BY <1>3 DEF streamAssistantResponse
  <2>2. a[1] \in Failed \cup Successes /\ a[2] \in Nat
    BY <2>1, BoundAssumption DEF Answers, Failed, Errors, Successes
  <2> DEFINE m == Assistant(turns + 1, a[1], a[2])
  <2>3. m \in AnswerMessages /\ m.stop = a[1]
    BY <1>1, <2>2 DEF Assistant, AnswerMessages
  <2>4. messages' = Append(messages, m)
    BY <2>1
  <2>5. BatchOK(batch') /\ batch'.started = 0
    <3> DEFINE status == [k \in 1..a[2] |-> "none"]
               count == a[2]
    <3>1. PICK mode : batch' = [mode |-> mode, calls |-> count, started |-> 0, status |-> status]
      BY <2>1
    <3>2. count \in Nat
      BY <2>2
    <3> HIDE DEF status, count
    <3>3. /\ DOMAIN batch' = {"mode", "calls", "started", "status"}
          /\ batch'.calls = count /\ batch'.started = 0
      BY <3>1
    <3>4. batch'.calls \in Nat /\ batch'.started \in Nat
      BY <3>2, <3>3
    <3> QED
      BY <3>3, <3>4, Zenon DEF BatchOK
  <2>6. pc' \in {"finish", "preflight", "turnEnd"} /\ (a[1] \in Failed => pc' = "finish")
    <3>1. pc' = CASE a[1] \in Failed -> "finish"
                 [] a[2] > 0 -> "preflight"
                 [] OTHER -> "turnEnd"
      BY <2>1, Zenon
    <3>2. CASE a[1] \in Failed /\ ~(a[2] > 0)
      BY <3>1, <3>2, Zenon
    <3>3. CASE a[1] \in Failed /\ a[2] > 0
      <4>1. a[2] = 0
        BY <3>3, BoundAssumption DEF Answers, Failed, Errors, Successes
      <4> QED
        BY <3>3, <4>1
    <3>4. CASE a[1] \notin Failed /\ a[2] > 0
      BY <3>1, <3>4, Zenon
    <3>5. CASE a[1] \notin Failed /\ ~(a[2] > 0)
      BY <3>1, <3>5, Zenon
    <3> QED
      BY <3>2, <3>3, <3>4, <3>5
  <2>7. /\ pc = "request" /\ turns' = turns + 1 /\ UNCHANGED <<steering, followUp, pending>>
    BY <1>3 DEF streamAssistantResponse
  <2> HIDE DEF m
  <2>8. AnswerStep(m)
    BY <1>1, <1>2, <2>3, <2>4, <2>5, <2>6, <2>7 DEF AnswerStep, Failed
  <2> QED
    BY <2>8
<1>4. CASE handleRunFailure
  <2> DEFINE m == Assistant(turns + 1, IF aborted THEN "aborted" ELSE "fatal", 0)
  <2>1. m \in AnswerMessages
    BY <1>1 DEF Assistant, AnswerMessages, Failed, Errors
  <2>2. /\ messages' = Append(messages, m) /\ pc = "request" /\ pc' = "finish"
        /\ turns' = turns + 1 /\ batch' = batch /\ UNCHANGED <<steering, followUp, pending>>
    BY <1>4 DEF handleRunFailure
  <2> HIDE DEF m
  <2>3. AnswerStep(m)
    BY <1>1, <1>2, <2>1, <2>2 DEF AnswerStep
  <2> QED
    BY <2>3
<1> QED
  BY <1>3, <1>4

LEMMA PollSteps ==
  ASSUME Types, Placed, handleAgentEvent(NewMessages),
         UNCHANGED <<driver, used, cleared>>,
         createRunLoopState \/ endTurn \/ pollFollowUps
  PROVE  \E to, rest : PollStep(to, rest)
<1>1. /\ messages \in Seq(Messages) /\ persisted \in Seq(Messages) /\ BatchOK(batch)
      /\ steering \in Seq(Texts) /\ followUp \in Seq(Texts) /\ <<>> \in Seq(Messages)
      /\ IsInjective(steering) /\ IsInjective(followUp)
  BY DEF Types, Placed, OnePlace, BatchOK
<1>2. messages' = messages /\ pending = <<>>
  BY DEF createRunLoopState, endTurn, pollFollowUps, Placed, OnlySent
<1>3. /\ persisted' = persisted /\ UNCHANGED <<lastAssistant, retryAttempt>>
      /\ steeringTexts' \cup followUpTexts' = steeringTexts \cup followUpTexts
  <2>1. messages' = messages \o <<>>
    BY <1>1, <1>2, ConcatEmptySeq
  <2>2. NewMessages = <<>>
    BY <1>1, <2>1, NewMessagesAre
  <2>3. handleAgentEvent(<<>>) /\ Plain(<<>>)
    BY <2>2, PlainMessages
  <2>4. persisted \o <<>> = persisted
    BY <1>1, ConcatEmptySeq
  <2> QED
    BY <1>1, <2>3, <2>4, EventPlain
<1>4. ASSUME NEW q \in Seq(Texts), NEW mode, IsInjective(q),
             pending' = Drained(q, mode),
             pc' # "turn" => q = <<>>
      PROVE  Polls(q, Drained(q, mode), Left(q, mode))
  BY <1>2, <1>3, <1>4, SplitQueue DEF Polls
<1>5. BatchOK(NoBatch)
  BY DEF BatchOK, NoBatch
<1>6. CASE createRunLoopState /\ skipPoll
  <2>1. pending' = <<>> /\ steering' = steering /\ followUp' = followUp /\ batch' = batch
        /\ turns' = turns /\ pc = "poll" /\ pc' = "turn"
    BY <1>6 DEF createRunLoopState
  <2>2. Polls(steering, <<>>, steering)
    BY <1>1, <1>2, <1>3, <2>1, EmptyQueue DEF Polls
  <2>3. PollStep(<<>>, steering)
    BY <1>1, <1>2, <1>3, <2>1, <2>2, EmptyQueue DEF PollStep
  <2> QED
    BY <2>3
<1>7. CASE createRunLoopState /\ ~skipPoll
  <2> DEFINE to == Drained(steering, SteeringMode)
             rest == Left(steering, SteeringMode)
  <2>1. pending' = to /\ steering' = rest /\ followUp' = followUp /\ batch' = batch
        /\ turns' = turns /\ pc = "poll" /\ pc' = "turn"
    BY <1>7 DEF createRunLoopState
  <2>2. Polls(steering, to, rest) /\ to \in Seq(Texts) /\ rest \in Seq(Texts)
    BY <1>1, <1>4, <2>1, SplitQueue
  <2> HIDE DEF to, rest
  <2>3. PollStep(to, rest)
    BY <1>1, <1>2, <1>3, <2>1, <2>2 DEF PollStep
  <2> QED
    BY <2>3
<1>8. CASE endTurn
  <2> DEFINE to == Drained(steering, SteeringMode)
             rest == Left(steering, SteeringMode)
  <2>1. pending' = to /\ steering' = rest /\ followUp' = followUp /\ batch' = NoBatch
        /\ turns' = turns /\ pc = "turnEnd"
        /\ pc' = IF HasMoreToolCalls \/ steering # <<>> THEN "turn" ELSE "followUps"
    BY <1>8 DEF endTurn
  <2>2. Polls(steering, to, rest) /\ to \in Seq(Texts) /\ rest \in Seq(Texts)
        /\ (steering # <<>> => to # <<>>)
    BY <1>1, <1>4, <2>1, SplitQueue
  <2>3. HasMoreToolCalls => batch.started > 0
    BY <1>1 DEF HasMoreToolCalls, BatchOK
  <2> HIDE DEF to, rest
  <2>4. PollStep(to, rest)
    BY <1>2, <1>3, <1>5, <2>1, <2>2, <2>3 DEF PollStep
  <2> QED
    BY <2>4
<1>9. CASE pollFollowUps
  <2> DEFINE to == Drained(followUp, FollowUpMode)
             rest == Left(followUp, FollowUpMode)
  <2>1. pending' = to /\ followUp' = rest /\ steering' = steering /\ batch' = batch
        /\ turns' = turns /\ pc = "followUps"
        /\ pc' = IF followUp # <<>> THEN "turn" ELSE "finish"
    BY <1>9 DEF pollFollowUps
  <2>2. Polls(followUp, to, rest) /\ to \in Seq(Texts) /\ rest \in Seq(Texts)
        /\ (followUp # <<>> => to # <<>>)
    BY <1>1, <1>4, <2>1, SplitQueue
  <2> HIDE DEF to, rest
  <2>3. PollStep(to, rest)
    BY <1>1, <1>2, <1>3, <2>1, <2>2 DEF PollStep
  <2> QED
    BY <2>3
<1> QED
  BY <1>6, <1>7, <1>8, <1>9

LEMMA TurnSteps ==
  ASSUME Types, handleAgentEvent(NewMessages), startTurn
  PROVE  TurnStep
<1>1. messages \in Seq(Messages) /\ pending \in Seq(Texts) /\ AsUsers(pending) \in Seq(Messages)
  BY UsersOf DEF Types
<1>2. NewMessages = AsUsers(pending)
  BY <1>1, NewMessagesAre DEF startTurn
<1>3. handleAgentEvent(AsUsers(pending))
  BY <1>2
<1> QED
  BY <1>1, <1>3, EventUsers DEF startTurn, TurnStep

LEMMA LoopStepIs ==
  ASSUME Types, Placed, LoopStep
  PROVE  \/ \E x : ToolStep(x)
         \/ \E m : AnswerStep(m)
         \/ \E to, rest : PollStep(to, rest)
         \/ TurnStep
BY ToolSteps, AnswerSteps, PollSteps, TurnSteps DEF LoopStep

-----------------------------------------------------------------------------
(* A driver that awaits no run goes on as r, and the messages x are stored. *)
DriverMove(d, r, x) ==
  /\ d \in Drivers /\ r \in DriverRecords /\ HoldsText(r)
  /\ driver' = [driver EXCEPT ![d] = r]
  /\ driver[d].phase \notin {"off", "running"} /\ r.phase \notin {"running", "post"}
  /\ driver[d].phase = "post" \/ ~Settling
  /\ r.text \in {driver[d].text, None}
  /\ x \in Seq(Messages) /\ Plain(x) /\ persisted' = persisted \o x
  /\ r.len <= Len(persisted)
  /\ UNCHANGED <<steering, followUp, pending, pc, batch, turns, steeringTexts,
                 followUpTexts, used, cleared, overlapped, bashRuns>>
  /\ messages' \in Seq(Messages)
  /\ messages # <<>> => messages' # <<>>
  /\ messages' # <<>> => ~IsAssistant(messages'[1])
  /\ r.phase \in {"sleep", "resume"} => messages' # <<>>
  /\ r.phase = "compact" /\ r.msg # None => messages' # <<>>
  /\ r.phase = "off" => isStreaming \/ ~hasQueuedMessages
  /\ \/ sleeper' = None
     \/ sleeper' = sleeper /\ sleeper # d
     \/ sleeper' = d /\ r.phase = "sleep"
  /\ firstKept' = firstKept \/ firstKept' \in 1..(Len(persisted) + 1)
  /\ lastAssistant' \in {lastAssistant, None}
  /\ isStreaming => lastAssistant' = lastAssistant
  /\ retryAttempt' \in 0..MaxRetries
  /\ ~overlapped /\ retryAttempt' # 0 => r.phase \in {"sleep", "resume"} /\ EndsOpen(messages')
  /\ pendingBash' \in 0..bashRuns

LEMMA DriverMoveKeeps ==
  ASSUME AInv, NEW d, NEW r, NEW x, DriverMove(d, r, x)
  PROVE  AInv' /\ StatusStep
<1>1. /\ d \in Drivers /\ r \in DriverRecords /\ driver \in [Drivers -> DriverRecords]
      /\ driver' = [driver EXCEPT ![d] = r]
      /\ driver[d].phase \notin {"off", "running"} /\ r.phase \notin {"running", "post"}
  BY DEF AInv, Types, DriverMove
<1>2. \A e \in Drivers : driver'[e] = IF e = d THEN r ELSE driver[e]
  BY <1>1
<1>3. \A e \in Drivers : driver'[e].phase # "post"
  BY <1>1, <1>2 DEF AInv, OneRun, DriverMove, Settling
<1>4. /\ persisted' \in Seq(Messages) /\ Len(persisted') >= Len(persisted)
      /\ Len(persisted) \in Nat /\ Len(persisted') \in Nat
  <2>1. persisted \in Seq(Messages) /\ x \in Seq(Messages)
    BY DEF AInv, Types, DriverMove
  <2>2. persisted' = persisted \o x
    BY DEF DriverMove
  <2>3. /\ persisted \o x \in Seq(Messages) /\ Len(persisted \o x) >= Len(persisted)
        /\ Len(persisted) \in Nat /\ Len(persisted \o x) \in Nat
    BY <2>1, Longer
  <2> QED
    BY <2>2, <2>3
<1>5. Types'
  <2>1. driver' \in [Drivers -> DriverRecords]
    BY <1>1
  <2>2. lastAssistant' \in AnswerMessages \cup {None} /\ sleeper' \in Drivers \cup {None}
    BY DEF AInv, Types, DriverMove
  <2> QED
    BY <1>4, <2>1, <2>2 DEF AInv, Types, DriverMove
<1>6. InsideFile'
  <2>1. \A e \in Drivers : driver'[e].len <= Len(persisted')
    <3>1. \A e \in Drivers : driver'[e].len <= Len(persisted) /\ driver'[e].len \in Nat
      BY <1>1, <1>2 DEF AInv, InsideFile, DriverMove, DriverRecords
    <3> QED
      BY <1>4, <3>1
  <2>2. firstKept' \in 1..(Len(persisted') + 1)
    BY <1>4 DEF AInv, InsideFile, DriverMove
  <2> QED
    BY <2>1, <2>2 DEF InsideFile
<1>7. (\A e \in Drivers : HoldsText(driver[e]))'
  <2>1. \A e \in Drivers : HoldsText(driver[e])
    BY DEF AInv
  <2>2. HoldsText(r)
    BY DEF DriverMove
  <2>3. \A e \in Drivers : HoldsText(driver'[e])
    BY <1>2, <2>1, <2>2
  <2> QED
    BY <2>3 DEF HoldsText
<1>8. Placed' /\ StatusStep
  <2>1. LeavesQueues
    BY <1>2 DEF LeavesQueues, DriverMove
  <2>2. \A i \in 1..Len(x) : x[i] \notin UserMessages
    BY DEF DriverMove, Plain
  <2> QED
    BY <2>1, <2>2, LeavingKeepsPlaces DEF AInv, Placed, DriverMove
<1>9. OneRun'
  <2>1. isStreaming' <=> isStreaming
    BY DEF DriverMove, isStreaming, Idle
  <2>2. isStreaming' => \E e \in Drivers : driver'[e].phase = "running"
    BY <1>1, <1>2, <2>1 DEF AInv, OneRun
  <2>3. \A e \in Drivers : driver'[e].phase = "running" => isStreaming'
    BY <1>1, <1>2, <2>1 DEF AInv, OneRun
  <2>4. \A e, f \in Drivers :
           {driver'[e].phase, driver'[f].phase} \subseteq {"running", "post"} => e = f
    <3>1. SUFFICES ASSUME NEW e \in Drivers, NEW f \in Drivers,
                          {driver'[e].phase, driver'[f].phase} \subseteq {"running", "post"}
                   PROVE  e = f
      OBVIOUS
    <3>2. e # d /\ f # d
      BY <1>1, <1>2, <3>1
    <3>3. driver'[e] = driver[e] /\ driver'[f] = driver[f]
      BY <1>2, <3>2
    <3> QED
      BY <3>1, <3>3 DEF AInv, OneRun
  <2>5. sleeper' # None => driver'[sleeper'].phase = "sleep"
    <3>1. sleeper # None => sleeper \in Drivers /\ driver[sleeper].phase = "sleep"
      BY DEF AInv, Types, OneRun
    <3> QED
      BY <1>1, <1>2, <3>1 DEF DriverMove
  <2> QED
    BY <1>3, <2>2, <2>3, <2>4, <2>5 DEF OneRun
<1>10. HasAnswer'
  <2>1. pc' = pc /\ (pc # "idle" => lastAssistant' = lastAssistant)
    BY DEF DriverMove, isStreaming, Idle
  <2> QED
    BY <2>1 DEF AInv, HasAnswer, Answered
<1>11. Begun'
  <2>1. \A e \in Drivers :
          \/ driver'[e].phase \in {"running", "post", "sleep", "resume"}
          \/ driver'[e].phase = "compact" /\ driver'[e].msg # None
          => messages' # <<>>
    BY <1>1, <1>2 DEF AInv, Begun, DriverMove
  <2> QED
    BY <2>1 DEF Begun, DriverMove
<1>12. Attended'
  <2>1. hasQueuedMessages' <=> hasQueuedMessages
    BY DEF DriverMove, hasQueuedMessages
  <2>2. CASE r.phase # "off"
    BY <1>1, <1>2, <2>2 DEF Attended
  <2>3. CASE isStreaming
    <3>1. PICK e \in Drivers : driver[e].phase = "running"
      BY <2>3 DEF AInv, OneRun
    <3>2. driver'[e].phase = "running"
      BY <1>1, <1>2, <3>1
    <3> QED
      BY <3>2 DEF Attended
  <2> QED
    BY <2>1, <2>2, <2>3 DEF Attended, DriverMove
<1>13. (~overlapped => Alone)'
  <2>1. SUFFICES ASSUME ~overlapped PROVE Alone'
    BY DEF DriverMove
  <2>2. \A e, f \in Drivers : driver[e].phase # "off" /\ driver[f].phase # "off" => e = f
    BY <2>1 DEF AInv, Alone
  <2>3. \A e \in Drivers : e # d => driver[e].phase = "off"
    BY <1>1, <2>2
  <2>4. \A e, f \in Drivers : driver'[e].phase # "off" /\ driver'[f].phase # "off" => e = f
    BY <1>2, <2>3
  <2>5. pc = "idle" /\ pc' = "idle"
    BY <1>1, <2>3 DEF AInv, OneRun, isStreaming, Idle, DriverMove
  <2>6. ~Settling'
    BY <1>3 DEF Settling
  <2>7. retryAttempt' # 0 => \E e \in Drivers : Retrying(e)'
    <3>1. retryAttempt' # 0 => r.phase \in {"sleep", "resume"} /\ EndsOpen(messages')
      BY <2>1 DEF DriverMove
    <3>2. driver'[d] = r
      BY <1>1, <1>2
    <3>3. retryAttempt' # 0 => Retrying(d)'
      BY <3>1, <3>2 DEF Retrying, EndsOpen
    <3> QED
      BY <1>1, <3>3
  <2> QED
    BY <2>4, <2>5, <2>6, <2>7 DEF Alone
<1> QED
  BY <1>5, <1>6, <1>7, <1>8, <1>9, <1>10, <1>11, <1>12, <1>13 DEF AInv, Placed

-----------------------------------------------------------------------------
(* The steps of the loop. *)

LoopKept == UNCHANGED <<firstKept, sleeper, pendingBash, bashRuns, driver, used, cleared, overlapped>>

(* What every step of the loop leaves true: it belongs to a driver that runs. *)
LEMMA LoopCommon ==
  ASSUME AInv, LoopKept, isStreaming, pc' \in Places \ {"idle"},
         NEW x \in Seq(Messages), messages' = messages \o x, persisted' = persisted \o x
  PROVE  /\ messages' \in Seq(Messages) /\ persisted' \in Seq(Messages)
         /\ InsideFile' /\ (\A d \in Drivers : HoldsText(driver[d]))' /\ OneRun' /\ Begun'
         /\ Attended' /\ ~Settling' /\ messages # <<>>
         /\ \E d \in Drivers : driver[d].phase = "running"
<1>1. PICK d \in Drivers : driver[d].phase = "running"
  BY DEF AInv, OneRun
<1>2. isStreaming'
  BY DEF isStreaming, Idle
<1>3. messages # <<>> /\ messages \in Seq(Messages) /\ persisted \in Seq(Messages)
  BY <1>1 DEF AInv, Begun, Types
<1>4. /\ messages' \in Seq(Messages) /\ persisted' \in Seq(Messages)
      /\ Len(persisted') >= Len(persisted) /\ Len(persisted) \in Nat /\ Len(persisted') \in Nat
      /\ messages' # <<>> /\ messages'[1] = messages[1]
  BY <1>3, Longer
<1>5. driver' = driver /\ firstKept' = firstKept /\ sleeper' = sleeper
  BY DEF LoopKept
<1>6. InsideFile'
  <2>1. \A e \in Drivers : driver[e].len <= Len(persisted) /\ driver[e].len \in Nat
    BY DEF AInv, InsideFile, Types, DriverRecords
  <2>2. firstKept \in 1..(Len(persisted) + 1)
    BY DEF AInv, InsideFile
  <2> QED
    BY <1>4, <1>5, <2>1, <2>2 DEF InsideFile
<1>7. (\A e \in Drivers : HoldsText(driver[e]))'
  BY <1>5 DEF AInv, HoldsText
<1>8. \A e \in Drivers : driver[e].phase # "post"
  BY DEF AInv, OneRun, isStreaming
<1>9. OneRun'
  BY <1>2, <1>5, <1>8 DEF AInv, OneRun
<1>10. Begun'
  BY <1>3, <1>4, <1>5 DEF AInv, Begun
<1>11. Attended'
  BY <1>1, <1>5 DEF Attended
<1> QED
  BY <1>1, <1>3, <1>4, <1>5, <1>6, <1>7, <1>8, <1>9, <1>10, <1>11 DEF Settling

(* During a run the counter of retries is only above zero before the answer and *)
(* after a failed one.                                                          *)
LEMMA RetryInRun ==
  ASSUME AInv, ~overlapped, isStreaming, retryAttempt # 0
  PROVE  pc \in {"poll", "turn", "request"} \/ (pc = "finish" /\ lastAssistant.stop \in Errors)
<1>1. PICK d \in Drivers : driver[d].phase = "running"
  BY DEF AInv, OneRun
<1>2. PICK e \in Drivers : Retrying(e)
  BY DEF AInv, Alone
<1>3. driver[e].phase # "off"
  BY <1>2 DEF Retrying
<1>4. d = e
  BY <1>1, <1>3 DEF AInv, Alone
<1> QED
  BY <1>1, <1>2, <1>4 DEF Retrying

(* A transcript that ends in messages other than answers. *)
LEMMA EndsInPlain ==
  ASSUME NEW p \in Seq(Messages), NEW x \in Seq(Messages), x # <<>>,
         \A i \in 1..Len(x) : x[i] \notin AnswerMessages
  PROVE  EndsOpen(p \o x)
<1>1. Len(x) \in Nat \ {0}
  BY EmptySeq
<1>2. x[Len(x)] \in Messages /\ x[Len(x)] \notin AnswerMessages
  BY <1>1
<1>3. ~IsAssistant(x[Len(x)])
  BY <1>2, AnswerRole
<1> QED
  BY <1>3, Longer DEF EndsOpen

LEMMA ToolStepKeeps ==
  ASSUME AInv, LoopKept, NEW x, ToolStep(x)
  PROVE  AInv' /\ StatusStep
<1>1. isStreaming /\ pc' \in Places \ {"idle"} /\ pc' \in Answered /\ pc \in Answered
  BY DEF ToolStep, isStreaming, Idle, Places, Answered
<1>2. x \in Seq(Messages) /\ messages' = messages \o x /\ persisted' = persisted \o x
      /\ Plain(x) /\ messages \in Seq(Messages)
  BY DEF ToolStep, AInv, Types
<1>3. /\ messages' \in Seq(Messages) /\ persisted' \in Seq(Messages)
      /\ InsideFile' /\ (\A d \in Drivers : HoldsText(driver[d]))' /\ OneRun' /\ Begun'
      /\ Attended' /\ ~Settling'
  BY <1>1, <1>2, LoopCommon
<1>4. Types'
  BY <1>1, <1>3 DEF AInv, Types, ToolStep, LoopKept, BatchOK
<1>5. Placed' /\ StatusStep
  <2>1. LeavesQueues
    BY DEF LeavesQueues, ToolStep, LoopKept
  <2>2. \A i \in 1..Len(x) : x[i] \notin UserMessages
    BY <1>2 DEF Plain
  <2> QED
    BY <1>2, <2>1, <2>2, LeavingKeepsPlaces DEF AInv, Placed
<1>6. HasAnswer'
  BY <1>1 DEF AInv, HasAnswer, ToolStep
<1>7. (~overlapped => Alone)'
  <2>1. SUFFICES ASSUME ~overlapped PROVE Alone'
    BY DEF LoopKept
  <2>2. Alone
    BY <2>1 DEF AInv
  <2>3. retryAttempt' = 0
    BY <1>1, <2>1, RetryInRun DEF ToolStep, Answered
  <2>4. pc' = "results" /\ batch'.started > 0 => EndsOpen(messages')
    BY <1>2, EndsInPlain DEF ToolStep, Plain
  <2>5. pc' = "turnEnd" /\ batch'.started > 0 => EndsOpen(messages')
    <3>1. SUFFICES ASSUME pc' = "turnEnd", batch'.started > 0 PROVE EndsOpen(messages')
      OBVIOUS
    <3>2. pc = "results" /\ x = <<>> /\ batch.started > 0
      BY <3>1 DEF ToolStep
    <3>3. messages' = messages
      BY <1>2, <3>2, Longer
    <3> QED
      BY <2>2, <3>2, <3>3 DEF Alone
  <2>6. \A d, e \in Drivers : driver'[d].phase # "off" /\ driver'[e].phase # "off" => d = e
    BY <2>2 DEF Alone, LoopKept
  <2>7. pc' \notin {"poll", "request", "turn", "finish"}
    BY <1>1 DEF Answered
  <2> QED
    BY <1>3, <2>3, <2>4, <2>5, <2>6, <2>7 DEF Alone, EndsOpen
<1> QED
  BY <1>3, <1>4, <1>5, <1>6, <1>7 DEF AInv, Placed

LEMMA AnswerStepKeeps ==
  ASSUME AInv, LoopKept, NEW m, AnswerStep(m)
  PROVE  AInv' /\ StatusStep
<1>1. isStreaming /\ pc' \in Places \ {"idle"} /\ pc = "request"
      /\ pc' \in {"finish", "preflight", "turnEnd"}
  BY DEF AnswerStep, isStreaming, Idle, Places
<1>2. /\ m \in AnswerMessages /\ m \in Messages /\ <<m>> \in Seq(Messages)
      /\ messages' = messages \o <<m>> /\ persisted' = persisted \o <<m>>
      /\ messages \in Seq(Messages) /\ m # None
  BY OneMessage, RolesOf DEF AnswerStep, Messages, AInv, Types
<1>3. /\ messages' \in Seq(Messages) /\ persisted' \in Seq(Messages)
      /\ InsideFile' /\ (\A d \in Drivers : HoldsText(driver[d]))' /\ OneRun' /\ Begun'
      /\ Attended' /\ ~Settling' /\ messages # <<>>
      /\ \E d \in Drivers : driver[d].phase = "running"
  BY <1>1, <1>2, LoopCommon
<1>4. Types'
  <2>1. retryAttempt' \in 0..MaxRetries
    BY RetryAssumption DEF AInv, Types, AnswerStep
  <2> QED
    BY <1>1, <1>2, <1>3, <2>1 DEF AInv, Types, AnswerStep, LoopKept, BatchOK
<1>5. Placed' /\ StatusStep
  <2>1. LeavesQueues
    BY DEF LeavesQueues, AnswerStep, LoopKept
  <2>2. \A i \in 1..Len(<<m>>) : <<m>>[i] \notin UserMessages
    BY <1>2, RolesOf
  <2> QED
    BY <1>2, <2>1, <2>2, LeavingKeepsPlaces DEF AInv, Placed
<1>6. HasAnswer'
  BY <1>1, <1>2 DEF HasAnswer, AnswerStep, Answered
<1>7. (~overlapped => Alone)'
  <2>1. SUFFICES ASSUME ~overlapped PROVE Alone'
    BY DEF LoopKept
  <2>2. Alone
    BY <2>1 DEF AInv
  <2>3. \A d, e \in Drivers : driver'[d].phase # "off" /\ driver'[e].phase # "off" => d = e
    BY <2>2 DEF Alone, LoopKept
  <2>4. EndsOnce(messages')
    <3> DEFINE n == Len(messages)
    <3>1. n \in Nat \ {0} /\ Len(messages') = n + 1 /\ messages'[n] = messages[n]
      BY <1>2, <1>3, EmptySeq, ConcatProperties
    <3>2. ~IsAssistant(messages[n])
      BY <1>1, <1>3, <2>2 DEF Alone, EndsOpen
    <3> HIDE DEF n
    <3>3. Len(messages') - 1 = n
      BY <3>1
    <3> QED
      BY <3>1, <3>2, <3>3 DEF EndsOnce
  <2>5. retryAttempt' # 0 => \E d \in Drivers : Retrying(d)'
    <3>1. PICK d \in Drivers : driver[d].phase = "running"
      BY <1>3
    <3>2. retryAttempt' # 0 => m.stop \in Errors /\ pc' = "finish" /\ lastAssistant' = m
      BY DEF AnswerStep
    <3>3. retryAttempt' # 0 => Retrying(d)'
      BY <3>1, <3>2 DEF Retrying, LoopKept
    <3> QED
      BY <3>3
  <2>6. pc' = "turnEnd" => ~(batch'.started > 0)
    BY DEF AnswerStep
  <2> QED
    BY <1>1, <2>3, <2>4, <2>5, <2>6 DEF Alone, EndsOnce
<1> QED
  BY <1>3, <1>4, <1>5, <1>6, <1>7 DEF AInv, Placed

LEMMA PollStepKeeps ==
  ASSUME AInv, LoopKept, NEW to, NEW rest, PollStep(to, rest)
  PROVE  AInv' /\ StatusStep
<1>1. isStreaming /\ pc' \in Places \ {"idle"} /\ pc \in {"poll", "turnEnd", "followUps"}
      /\ pc' \in {"turn", "followUps", "finish"}
  BY DEF PollStep, isStreaming, Idle, Places
<1>2. /\ messages' = messages /\ persisted' = persisted /\ pending' = to
      /\ messages \in Seq(Messages) /\ persisted \in Seq(Messages) /\ <<>> \in Seq(Messages)
  BY DEF PollStep, Polls, AInv, Types
<1>3. messages' = messages \o <<>> /\ persisted' = persisted \o <<>>
  BY <1>2, ConcatEmptySeq
<1>4. /\ InsideFile' /\ (\A d \in Drivers : HoldsText(driver[d]))' /\ OneRun' /\ Begun'
      /\ Attended' /\ ~Settling'
      /\ \E d \in Drivers : driver[d].phase = "running"
  BY <1>1, <1>2, <1>3, LoopCommon
<1>5. Types'
  <2>1. steering' \in Seq(Texts) /\ followUp' \in Seq(Texts) /\ pending' \in Seq(Texts)
    BY <1>2 DEF PollStep, AInv, Types
  <2> QED
    BY <1>1, <1>2, <2>1 DEF AInv, Types, PollStep, LoopKept, BatchOK
<1>6. Placed' /\ StatusStep
  <2>1. \/ Polls(steering, to, rest) /\ steering' = rest /\ followUp' = followUp
        \/ Polls(followUp, to, rest) /\ followUp' = rest /\ steering' = steering
    BY DEF PollStep
  <2> QED
    BY <2>1, PollingKeepsPlaces DEF AInv, Placed
<1>7. HasAnswer'
  BY DEF AInv, HasAnswer, PollStep, Answered
<1>8. (~overlapped => Alone)'
  <2>1. SUFFICES ASSUME ~overlapped PROVE Alone'
    BY DEF LoopKept
  <2>2. Alone
    BY <2>1 DEF AInv
  <2>3. \A d, e \in Drivers : driver'[d].phase # "off" /\ driver'[e].phase # "off" => d = e
    BY <2>2 DEF Alone, LoopKept
  <2>4. pc' = "turn" /\ pending' = <<>> => EndsOpen(messages')
    BY <1>2, <2>2 DEF Alone, PollStep
  <2>5. pc' = "finish" => ~(lastAssistant'.stop \in Errors)
    BY DEF AInv, HasAnswer, PollStep, Answered
  <2>6. retryAttempt' # 0 => \E d \in Drivers : Retrying(d)'
    <3>1. PICK d \in Drivers : driver[d].phase = "running"
      BY <1>4
    <3>2. retryAttempt' # 0 => pc' = "turn"
      BY <1>1, <2>1, RetryInRun DEF PollStep
    <3>3. retryAttempt' # 0 => Retrying(d)'
      BY <3>1, <3>2 DEF Retrying, LoopKept
    <3> QED
      BY <3>3
  <2> QED
    BY <1>1, <1>4, <2>3, <2>4, <2>5, <2>6 DEF Alone, EndsOpen
<1> QED
  BY <1>2, <1>4, <1>5, <1>6, <1>7, <1>8 DEF AInv, Placed

LEMMA TurnStepKeeps ==
  ASSUME AInv, LoopKept, TurnStep
  PROVE  AInv' /\ StatusStep
<1> DEFINE x == AsUsers(pending)
<1>1. isStreaming /\ pc' \in Places \ {"idle"} /\ pc = "turn" /\ pc' = "request"
  BY DEF TurnStep, isStreaming, Idle, Places
<1>2. /\ x \in Seq(Messages) /\ messages' = messages \o x /\ persisted' = persisted \o x
      /\ pending \in Seq(Texts) /\ messages \in Seq(Messages) /\ IsInjective(pending)
      /\ x \in Seq(UserMessages) /\ Len(x) = Len(pending) /\ TextsOf(x) = Range(pending)
  BY UsersOf DEF TurnStep, AInv, Types, OnePlace
<1>3. Once(x)
  BY <1>2, OnceUsers
<1> HIDE DEF x
<1>4. /\ messages' \in Seq(Messages) /\ persisted' \in Seq(Messages)
      /\ InsideFile' /\ (\A d \in Drivers : HoldsText(driver[d]))' /\ OneRun' /\ Begun'
      /\ Attended' /\ ~Settling'
      /\ \E d \in Drivers : driver[d].phase = "running"
  BY <1>1, <1>2, LoopCommon
<1>5. Types'
  BY <1>1, <1>4, EmptyQueue DEF AInv, Types, TurnStep, LoopKept
<1>6. Placed' /\ StatusStep
  <2>1. /\ TextsOf(x) \cap TextsOf(persisted) = {} /\ TextsOf(x) \subseteq used
        /\ TextsOf(x) \cap (Range(steering) \cup Range(followUp)) = {}
        /\ \A d \in Drivers : driver[d].text \notin TextsOf(x)
    BY <1>2 DEF AInv, OnePlace, OnlySent
  <2>2. /\ IsInjective(steering') /\ Range(steering') = Range(steering) \ TextsOf(x)
        /\ IsInjective(followUp') /\ Range(followUp') = Range(followUp) \ TextsOf(x)
    BY <2>1 DEF TurnStep, AInv, OnePlace
  <2>3. pending' = <<>> /\ IsInjective(pending') /\ Range(pending') = Range(pending) \ TextsOf(x)
    BY <1>2, EmptyQueue DEF TurnStep
  <2>4. steeringTexts' \cup followUpTexts' = (steeringTexts \cup followUpTexts) \ TextsOf(x)
    BY <1>2 DEF TurnStep
  <2>5. Delivers(x)
    BY <1>2, <1>3, <2>1, <2>2, <2>3, <2>4 DEF Delivers, LoopKept, Queued
  <2> QED
    BY <1>2, <2>5, DeliveringKeepsPlaces DEF AInv, Placed
<1>7. HasAnswer'
  BY <1>1 DEF HasAnswer, Answered
<1>8. (~overlapped => Alone)'
  <2>1. SUFFICES ASSUME ~overlapped PROVE Alone'
    BY DEF LoopKept
  <2>2. Alone
    BY <2>1 DEF AInv
  <2>3. \A d, e \in Drivers : driver'[d].phase # "off" /\ driver'[e].phase # "off" => d = e
    BY <2>2 DEF Alone, LoopKept
  <2>4. EndsOpen(messages')
    <3>1. CASE x = <<>>
      <4>1. pending = <<>>
        BY <1>2, <3>1, EmptySeq
      <4> QED
        BY <1>1, <1>2, <2>2, <3>1, <4>1, Longer DEF Alone
    <3>2. CASE x # <<>>
      <4>1. \A i \in 1..Len(x) : x[i] \notin AnswerMessages
        BY <1>2, RolesOf
      <4> QED
        BY <1>2, <3>2, <4>1, EndsInPlain
    <3> QED
      BY <3>1, <3>2
  <2>5. retryAttempt' # 0 => \E d \in Drivers : Retrying(d)'
    <3>1. PICK d \in Drivers : driver[d].phase = "running"
      BY <1>4
    <3>2. Retrying(d)'
      BY <1>1, <3>1 DEF Retrying, LoopKept
    <3> QED
      BY <3>2
  <2> QED
    BY <1>1, <1>4, <2>3, <2>4, <2>5 DEF Alone, EndsOpen
<1> QED
  BY <1>4, <1>5, <1>6, <1>7, <1>8 DEF AInv, Placed

LEMMA LoopKeeps ==
  ASSUME AInv, LoopStep
  PROVE  AInv' /\ StatusStep
<1>1. LoopKept
  BY DEF LoopStep, LoopKept
<1> QED
  BY <1>1, LoopStepIs, ToolStepKeeps, AnswerStepKeeps, PollStepKeeps, TurnStepKeeps
     DEF AInv, Placed

-----------------------------------------------------------------------------
(* A driver starts a run with the texts ts as its prompts. *)
StartsRun(d, r, ts) ==
  /\ d \in Drivers /\ r \in DriverRecords /\ HoldsText(r) /\ r.phase = "running"
  /\ driver[d].phase \in {"submit", "resume"} /\ driver' = [driver EXCEPT ![d] = r]
  /\ r.len <= Len(persisted)
  /\ Idle /\ ~Settling /\ pc' = "poll"
  /\ ts \in Seq(Texts) /\ Delivers(AsUsers(ts))
  /\ messages' = messages \o AsUsers(ts) /\ messages' # <<>> /\ EndsOpen(messages')
  /\ steering' \in Seq(Texts) /\ followUp' \in Seq(Texts) /\ pending' \in Seq(Texts)
  /\ UNCHANGED <<batch, turns, lastAssistant, retryAttempt, firstKept, sleeper,
                 pendingBash, bashRuns, overlapped>>

LEMMA StartsRunKeeps ==
  ASSUME AInv, NEW d, NEW r, NEW ts, StartsRun(d, r, ts)
  PROVE  AInv' /\ StatusStep
<1> DEFINE x == AsUsers(ts)
<1>1. /\ d \in Drivers /\ r \in DriverRecords /\ driver \in [Drivers -> DriverRecords]
      /\ driver' = [driver EXCEPT ![d] = r] /\ r.phase = "running"
      /\ driver[d].phase \in {"submit", "resume"}
  BY DEF AInv, Types, StartsRun
<1>2. \A e \in Drivers : driver'[e] = IF e = d THEN r ELSE driver[e]
  BY <1>1
<1>3. \A e \in Drivers : driver[e].phase \notin {"running", "post"}
  BY DEF AInv, OneRun, StartsRun, Settling, isStreaming
<1>4. /\ x \in Seq(Messages) /\ messages' = messages \o x /\ persisted' = persisted \o x
      /\ messages \in Seq(Messages) /\ persisted \in Seq(Messages) /\ Delivers(x)
      /\ x \in Seq(UserMessages)
  BY UsersOf DEF StartsRun, Delivers, AInv, Types
<1> HIDE DEF x
<1>5. /\ messages' \in Seq(Messages) /\ persisted' \in Seq(Messages)
      /\ Len(persisted') >= Len(persisted) /\ Len(persisted) \in Nat /\ Len(persisted') \in Nat
  BY <1>4, Longer
<1>6. Types'
  <2>1. driver' \in [Drivers -> DriverRecords] /\ pc' \in Places
    BY <1>1 DEF StartsRun, Places
  <2>2. used' = used
    BY DEF StartsRun, Delivers
  <2> QED
    BY <1>5, <2>1, <2>2 DEF AInv, Types, StartsRun
<1>7. InsideFile'
  <2>1. \A e \in Drivers : driver'[e].len <= Len(persisted) /\ driver'[e].len \in Nat
    BY <1>1, <1>2 DEF AInv, InsideFile, StartsRun, DriverRecords
  <2>2. firstKept' \in 1..(Len(persisted) + 1)
    BY DEF AInv, InsideFile, StartsRun
  <2> QED
    BY <1>5, <2>1, <2>2 DEF InsideFile
<1>8. (\A e \in Drivers : HoldsText(driver[e]))'
  <2>1. \A e \in Drivers : HoldsText(driver'[e])
    BY <1>2 DEF AInv, StartsRun
  <2> QED
    BY <2>1 DEF HoldsText
<1>9. Placed' /\ StatusStep
  BY <1>4, DeliveringKeepsPlaces DEF AInv, Placed
<1>10. OneRun'
  <2>1. isStreaming'
    BY DEF StartsRun, isStreaming, Idle
  <2>2. \A e \in Drivers : driver'[e].phase \in {"running", "post"} => e = d
    BY <1>2, <1>3
  <2>3. driver'[d].phase = "running" /\ \A e \in Drivers : driver'[e].phase # "post"
    BY <1>1, <1>2, <1>3
  <2>4. sleeper' # None => driver'[sleeper'].phase = "sleep"
    <3>1. sleeper # None => sleeper \in Drivers /\ driver[sleeper].phase = "sleep"
      BY DEF AInv, Types, OneRun
    <3> QED
      BY <1>1, <1>2, <3>1 DEF StartsRun
  <2> QED
    BY <1>1, <2>1, <2>2, <2>3, <2>4 DEF OneRun
<1>11. HasAnswer'
  BY DEF HasAnswer, StartsRun, Answered
<1>12. Begun'
  <2>1. ~IsAssistant(messages'[1])
    <3>1. CASE messages = <<>>
      <4>1. messages' = x /\ x # <<>>
        BY <1>4, <3>1, Longer DEF StartsRun
      <4>2. x[1] \in UserMessages
        BY <1>4, <4>1, EmptySeq
      <4> QED
        BY <4>1, <4>2, RolesOf DEF IsAssistant
    <3>2. CASE messages # <<>>
      BY <1>4, <3>2, Longer DEF AInv, Begun
    <3> QED
      BY <3>1, <3>2
  <2> QED
    BY <2>1 DEF Begun, StartsRun
<1>13. Attended'
  BY <1>1, <1>2 DEF Attended
<1>14. (~overlapped => Alone)'
  <2>1. SUFFICES ASSUME ~overlapped PROVE Alone'
    BY DEF StartsRun
  <2>2. \A e, f \in Drivers : driver[e].phase # "off" /\ driver[f].phase # "off" => e = f
    BY <2>1 DEF AInv, Alone
  <2>3. \A e, f \in Drivers : driver'[e].phase # "off" /\ driver'[f].phase # "off" => e = f
    <3>1. \A e \in Drivers : e # d => driver[e].phase = "off"
      BY <1>1, <2>2
    <3> QED
      BY <1>2, <3>1
  <2>4. Retrying(d)'
    BY <1>1, <1>2 DEF Retrying, StartsRun
  <2>5. ~Settling'
    BY <1>1, <1>2, <1>3 DEF Settling
  <2> QED
    BY <1>1, <2>3, <2>4, <2>5 DEF Alone, StartsRun, EndsOpen
<1> QED
  BY <1>6, <1>7, <1>8, <1>9, <1>10, <1>11, <1>12, <1>13, <1>14 DEF AInv, Placed

(* The prompts of a run that starts. *)
LEMMA RunStarts ==
  ASSUME Types, NEW ts \in Seq(Texts), NEW skip,
         runAgentLoop(AsUsers(ts), skip), handleAgentEvent(NewMessages)
  PROVE  /\ Idle /\ pc' = "poll"
         /\ messages' = messages \o AsUsers(ts) /\ persisted' = persisted \o AsUsers(ts)
         /\ steeringTexts' \cup followUpTexts' = (steeringTexts \cup followUpTexts) \ Range(ts)
         /\ UNCHANGED <<pending, batch, turns, lastAssistant, retryAttempt>>
<1>1. messages \in Seq(Messages) /\ AsUsers(ts) \in Seq(Messages)
      /\ messages' = messages \o AsUsers(ts)
  BY UsersOf DEF Types, runAgentLoop
<1>2. NewMessages = AsUsers(ts)
  BY <1>1, NewMessagesAre
<1>3. handleAgentEvent(AsUsers(ts))
  BY <1>2
<1> QED
  BY <1>1, <1>3, EventUsers DEF runAgentLoop

LEMMA EndsInUsers ==
  ASSUME NEW p \in Seq(Messages), NEW ts \in Seq(Texts), ts # <<>>
  PROVE  p \o AsUsers(ts) # <<>> /\ EndsOpen(p \o AsUsers(ts))
<1>1. AsUsers(ts) \in Seq(Messages) /\ AsUsers(ts) \in Seq(UserMessages) /\ Len(AsUsers(ts)) = Len(ts)
  BY UsersOf
<1>2. AsUsers(ts) # <<>>
  BY <1>1, EmptySeq
<1>3. \A i \in 1..Len(AsUsers(ts)) : AsUsers(ts)[i] \notin AnswerMessages
  BY <1>1, RolesOf
<1> QED
  BY <1>1, <1>2, <1>3, EndsInPlain, Longer

LEMMA DriverRecord ==
  ASSUME NEW r \in DriverRecords, NEW ph \in Phases
  PROVE  /\ [r EXCEPT !.phase = ph] \in DriverRecords
         /\ [r EXCEPT !.phase = ph].phase = ph
         /\ [r EXCEPT !.phase = ph].text = r.text
         /\ [r EXCEPT !.phase = ph].then = r.then
         /\ [r EXCEPT !.phase = ph].msg = r.msg
         /\ [r EXCEPT !.phase = ph].reason = r.reason
         /\ [r EXCEPT !.phase = ph].len = r.len
BY DEF DriverRecords

LEMMA NoDriverRecord ==
  /\ NoDriver \in DriverRecords
  /\ NoDriver.phase = "off" /\ NoDriver.text = None /\ NoDriver.then = "end"
  /\ NoDriver.msg = None /\ NoDriver.len = 0 /\ NoDriver.reason = "threshold"
BY DEF NoDriver, DriverRecords, Phases

LEMMA OneText ==
  ASSUME NEW t \in Texts
  PROVE  <<User(t)>> = AsUsers(<<t>>)
<1> DEFINE ts == <<t>>
<1>1. ts \in Seq(Texts) /\ Len(ts) = 1 /\ ts[1] = t
  OBVIOUS
<1> HIDE DEF ts
<1>2. AsUsers(ts) \in Seq(Messages) /\ Len(AsUsers(ts)) = 1 /\ AsUsers(ts)[1] = User(t)
  BY <1>1, UsersOf
<1> DEFINE u == AsUsers(ts)
<1> HIDE DEF u
<1>3. u = <<User(t)>>
  BY <1>2 DEF u
<1> QED
  BY <1>3 DEF u, ts

LEMMA SubmitStarts ==
  ASSUME AInv, ~Settling, NEW d \in Drivers, driver[d].phase = "submit",
         prompt(<<User(driver[d].text)>>), handleAgentEvent(NewMessages),
         driver' = [driver EXCEPT ![d] = [NoDriver EXCEPT !.phase = "running"]],
         UNCHANGED <<firstKept, sleeper, pendingBash, bashRuns, used, cleared, overlapped>>
  PROVE  AInv' /\ StatusStep
<1> DEFINE t == driver[d].text
           ts == <<t>>
           r == [NoDriver EXCEPT !.phase = "running"]
<1>1. t \in Texts /\ driver[d] \in DriverRecords /\ driver \in [Drivers -> DriverRecords]
  <2>1. driver[d] \in DriverRecords /\ HoldsText(driver[d])
    BY DEF AInv, Types
  <2> QED
    BY <2>1 DEF HoldsText, DriverRecords, AInv, Types
<1>2. ts \in Seq(Texts) /\ Range(ts) = {t} /\ IsInjective(ts) /\ ts # <<>>
  BY <1>1 DEF Range, IsInjective
<1>3. <<User(t)>> = AsUsers(ts)
  BY <1>1, OneText
<1>4. /\ r \in DriverRecords /\ r.phase = "running" /\ r.text = None /\ r.len = 0 /\ HoldsText(r)
  BY NoDriverRecord, DriverRecord DEF Phases, HoldsText
<1>5. messages \in Seq(Messages) /\ Types /\ Len(persisted) \in Nat
  BY DEF AInv, Types
<1>6. t \notin Range(steering) \cup Range(followUp) \cup Range(pending) \cup TextsOf(persisted)
      /\ t \in used /\ (\A e \in Drivers : e # d => driver[e].text # t)
      /\ IsInjective(steering) /\ IsInjective(followUp) /\ IsInjective(pending)
  <2>1. t # None
    BY <1>1, NoneAssumption
  <2> QED
    BY <2>1 DEF AInv, OnePlace, OnlySent
<1>7. driver' = [driver EXCEPT ![d] = r]
  OBVIOUS
<1> HIDE DEF t, ts, r
<1>8. runAgentLoop(AsUsers(ts), FALSE) /\ UNCHANGED <<steering, followUp>>
  BY <1>3 DEF prompt, t
<1>9. /\ Idle /\ pc' = "poll"
      /\ messages' = messages \o AsUsers(ts) /\ persisted' = persisted \o AsUsers(ts)
      /\ steeringTexts' \cup followUpTexts' = (steeringTexts \cup followUpTexts) \ Range(ts)
      /\ UNCHANGED <<pending, batch, turns, lastAssistant, retryAttempt>>
  BY <1>2, <1>5, <1>8, RunStarts
<1>10. Delivers(AsUsers(ts))
  <2>1. TextsOf(AsUsers(ts)) = {t} /\ Once(AsUsers(ts))
    BY <1>2, UsersOf, OnceUsers
  <2>2. pending = <<>>
    BY <1>9 DEF AInv, OnlySent, Idle
  <2>3. \A e \in Drivers : driver'[e].text \in {driver[e].text, None} /\ driver'[e].text # t
    BY <1>1, <1>4, <1>6, <1>7, NoneAssumption DEF t
  <2>4. TextsOf(AsUsers(ts)) \subseteq Held
    BY <2>1 DEF Held, t
  <2>5. \A e \in Drivers : driver[e].text = t \/ driver'[e].text = driver[e].text
    BY <1>1, <1>7 DEF t
  <2> QED
    BY <1>2, <1>6, <1>8, <1>9, <2>1, <2>2, <2>3, <2>4, <2>5 DEF Delivers
<1>11. messages' # <<>> /\ EndsOpen(messages')
  BY <1>2, <1>5, <1>9, EndsInUsers
<1>12. StartsRun(d, r, ts)
  <2>1. steering' \in Seq(Texts) /\ followUp' \in Seq(Texts) /\ pending' \in Seq(Texts)
    BY <1>5, <1>8, <1>9 DEF Types
  <2>2. r.len <= Len(persisted)
    BY <1>4, <1>5
  <2> QED
    BY <1>2, <1>4, <1>7, <1>9, <1>10, <1>11, <2>1, <2>2 DEF StartsRun
<1> QED
  BY <1>12, StartsRunKeeps

LEMMA ResumeStarts ==
  ASSUME AInv, ~Settling, NEW d \in Drivers, driver[d].phase = "resume",
         continue, handleAgentEvent(NewMessages),
         driver' = [driver EXCEPT ![d].phase = "running"],
         UNCHANGED <<firstKept, sleeper, pendingBash, bashRuns, used, cleared, overlapped>>
  PROVE  AInv' /\ StatusStep
<1> DEFINE r == [driver[d] EXCEPT !.phase = "running"]
<1>1. driver[d] \in DriverRecords /\ HoldsText(driver[d]) /\ driver \in [Drivers -> DriverRecords]
      /\ Types /\ Len(persisted) \in Nat /\ driver[d].len <= Len(persisted)
  BY DEF AInv, Types, InsideFile
<1>2. /\ r \in DriverRecords /\ r.phase = "running" /\ r.text = driver[d].text
      /\ r.len = driver[d].len /\ r.then = driver[d].then /\ r.msg = driver[d].msg
  BY <1>1, DriverRecord DEF Phases
<1>3. driver' = [driver EXCEPT ![d] = r]
  BY <1>1
<1> HIDE DEF r
<1>4. HoldsText(r)
  BY <1>1, <1>2 DEF HoldsText
<1>5. /\ messages \in Seq(Messages) /\ steering \in Seq(Texts) /\ followUp \in Seq(Texts)
      /\ pending \in Seq(Texts)
  BY <1>1 DEF Types
<1>6. Idle /\ pending = <<>> /\ messages # <<>>
  BY DEF continue, continueRefused, isStreaming, Idle, AInv, OnlySent
<1>7. ASSUME NEW ts \in Seq(Texts), NEW skip, runAgentLoop(AsUsers(ts), skip),
             IsInjective(ts), Range(ts) \subseteq Range(steering) \cup Range(followUp),
             steering' \in Seq(Texts), followUp' \in Seq(Texts),
             IsInjective(steering') /\ Range(steering') = Range(steering) \ Range(ts),
             IsInjective(followUp') /\ Range(followUp') = Range(followUp) \ Range(ts),
             ts # <<>> \/ EndsOpen(messages)
      PROVE  AInv' /\ StatusStep
  <2>1. /\ Idle /\ pc' = "poll"
        /\ messages' = messages \o AsUsers(ts) /\ persisted' = persisted \o AsUsers(ts)
        /\ steeringTexts' \cup followUpTexts' = (steeringTexts \cup followUpTexts) \ Range(ts)
        /\ UNCHANGED <<pending, batch, turns, lastAssistant, retryAttempt>>
    BY <1>1, <1>7, RunStarts
  <2>2. TextsOf(AsUsers(ts)) = Range(ts) /\ Once(AsUsers(ts)) /\ AsUsers(ts) \in Seq(Messages)
        /\ (ts = <<>> => AsUsers(ts) = <<>>)
    BY <1>7, UsersOf, OnceUsers
  <2>3. Range(ts) \cap TextsOf(persisted) = {} /\ Range(ts) \subseteq used
        /\ Range(ts) \cap Range(pending) = {} /\ IsInjective(pending)
        /\ \A e \in Drivers : driver[e].text \notin Range(ts)
    BY <1>7 DEF AInv, OnePlace, OnlySent
  <2>4. \A e \in Drivers : driver'[e].text = driver[e].text
    BY <1>1, <1>2, <1>3
  <2>5. Delivers(AsUsers(ts))
    BY <1>6, <1>7, <2>1, <2>2, <2>3, <2>4 DEF Delivers, Queued
  <2>6. messages' # <<>> /\ EndsOpen(messages')
    <3>1. CASE ts = <<>>
      <4>1. messages' = messages
        BY <1>5, <2>1, <2>2, <3>1, ConcatEmptySeq
      <4> QED
        BY <1>6, <1>7, <3>1, <4>1
    <3>2. CASE ts # <<>>
      BY <1>5, <2>1, <3>2, EndsInUsers
    <3> QED
      BY <3>1, <3>2
  <2>7. pending' \in Seq(Texts)
    BY <1>5, <2>1
  <2>8. StartsRun(d, r, ts)
    BY <1>1, <1>2, <1>3, <1>4, <1>7, <2>1, <2>5, <2>6, <2>7 DEF StartsRun
  <2> QED
    BY <2>8, StartsRunKeeps
<1>8. IsInjective(steering) /\ IsInjective(followUp) /\ Range(steering) \cap Range(followUp) = {}
  BY DEF AInv, OnePlace
<1>9. CASE ~LastIsAssistant /\ runAgentLoop(<<>>, FALSE) /\ UNCHANGED <<steering, followUp>>
  <2>1. AsUsers(<<>>) = <<>> /\ <<>> \in Seq(Texts) /\ IsInjective(<<>>) /\ Range(<<>>) = {}
    BY UsersOf, EmptyQueue
  <2>2. EndsOpen(messages)
    BY <1>9 DEF LastIsAssistant, EndsOpen, Last
  <2>3. runAgentLoop(AsUsers(<<>>), FALSE)
    BY <1>9, <2>1
  <2> QED
    BY <1>5, <1>7, <1>8, <1>9, <2>1, <2>2, <2>3
<1>10. CASE /\ steering # <<>>
            /\ runAgentLoop(AsUsers(Drained(steering, SteeringMode)), TRUE)
            /\ steering' = Left(steering, SteeringMode) /\ UNCHANGED followUp
  <2> DEFINE ts == Drained(steering, SteeringMode)
  <2>1. /\ ts \in Seq(Texts) /\ steering' \in Seq(Texts) /\ IsInjective(ts)
        /\ IsInjective(steering') /\ Range(ts) \cup Range(steering') = Range(steering)
        /\ Range(ts) \cap Range(steering') = {} /\ ts # <<>>
    BY <1>5, <1>8, <1>10, SplitQueue
  <2>2. runAgentLoop(AsUsers(ts), TRUE)
    BY <1>10
  <2> HIDE DEF ts
  <2>3. /\ Range(ts) \subseteq Range(steering) \cup Range(followUp)
        /\ Range(steering') = Range(steering) \ Range(ts)
        /\ followUp' \in Seq(Texts) /\ IsInjective(followUp')
        /\ Range(followUp') = Range(followUp) \ Range(ts)
    BY <1>5, <1>8, <1>10, <2>1
  <2> QED
    BY <1>7, <2>1, <2>2, <2>3
<1>11. CASE /\ LastIsAssistant /\ steering = <<>>
            /\ runAgentLoop(AsUsers(Drained(followUp, FollowUpMode)), FALSE)
            /\ followUp' = Left(followUp, FollowUpMode) /\ UNCHANGED steering
  <2> DEFINE ts == Drained(followUp, FollowUpMode)
  <2>1. followUp # <<>>
    BY <1>11 DEF continue, continueRefused, hasQueuedMessages
  <2>2. /\ ts \in Seq(Texts) /\ followUp' \in Seq(Texts) /\ IsInjective(ts)
        /\ IsInjective(followUp') /\ Range(ts) \cup Range(followUp') = Range(followUp)
        /\ Range(ts) \cap Range(followUp') = {} /\ ts # <<>>
    BY <1>5, <1>8, <1>11, <2>1, SplitQueue
  <2>3. runAgentLoop(AsUsers(ts), FALSE)
    BY <1>11
  <2> HIDE DEF ts
  <2>4. /\ Range(ts) \subseteq Range(steering) \cup Range(followUp)
        /\ Range(followUp') = Range(followUp) \ Range(ts)
        /\ steering' \in Seq(Texts) /\ IsInjective(steering')
        /\ Range(steering') = Range(steering) \ Range(ts)
    BY <1>5, <1>8, <1>11, <2>2
  <2> QED
    BY <1>7, <2>2, <2>3, <2>4
<1> QED
  BY <1>9, <1>10, <1>11 DEF continue

-----------------------------------------------------------------------------
(* The steps of a driver between runs. *)

LEMMA StrippedOf ==
  ASSUME NEW ms \in Seq(Messages), ms # <<>> => ~IsAssistant(ms[1])
  PROVE  /\ Stripped(ms) \in Seq(Messages)
         /\ ms # <<>> => Stripped(ms) # <<>>
         /\ Stripped(ms) # <<>> => ~IsAssistant(Stripped(ms)[1])
         /\ EndsOnce(ms) => EndsOpen(Stripped(ms))
<1> DEFINE n == Len(ms)
<1>1. CASE ms = <<>> \/ ~IsAssistant(Last(ms))
  <2>1. Stripped(ms) = ms
    BY <1>1 DEF Stripped
  <2>2. EndsOpen(ms)
    BY <1>1 DEF EndsOpen, Last
  <2> QED
    BY <2>1, <2>2
<1>2. CASE ms # <<>> /\ IsAssistant(Last(ms))
  <2>1. n \in Nat \ {0} /\ n # 1
    BY <1>2, EmptySeq DEF Last
  <2>2. Stripped(ms) = SubSeq(ms, 1, n - 1)
    BY <1>2 DEF Stripped, Front
  <2> DEFINE k == n - 1
             s == SubSeq(ms, 1, k)
  <2>3. s \in Seq(Messages) /\ Len(s) = k /\ \A i \in 1..k : s[i] = ms[i]
    BY <2>1
  <2>4. k \in Nat \ {0} /\ k = n - 1
    BY <2>1
  <2> HIDE DEF s, k
  <2>5. s # <<>> /\ s[1] = ms[1] /\ s[k] = ms[k]
    BY <2>3, <2>4
  <2>6. EndsOnce(ms) => EndsOpen(s)
    <3> HIDE DEF n
    <3>1. n > 1 /\ n - 1 = k
      BY <2>1, <2>4
    <3>2. Len(ms) = n
      BY DEF n
    <3> QED
      BY <2>3, <2>5, <3>1, <3>2 DEF EndsOnce, EndsOpen
  <2> QED
    BY <1>2, <2>2, <2>3, <2>5, <2>6 DEF s, k
<1> QED
  BY <1>1, <1>2

(* Shell results are appended. *)
LEMMA Flushed ==
  ASSUME AInv, NEW ms \in Seq(Messages), ms # <<>> => ~IsAssistant(ms[1])
  PROVE  LET x == BashMessages(pendingBash) IN
         /\ x \in Seq(Messages) /\ Plain(x)
         /\ ms \o x \in Seq(Messages) /\ (ms # <<>> => ms \o x # <<>>)
         /\ ms \o x # <<>> => ~IsAssistant((ms \o x)[1])
         /\ 0 \in 0..bashRuns
<1> DEFINE x == BashMessages(pendingBash)
<1>1. pendingBash \in Nat /\ bashRuns \in Nat
  BY DEF AInv, Types
<1>2. x \in Seq(Messages) /\ Plain(x) /\ Len(x) = pendingBash
      /\ \A i \in 1..pendingBash : x[i] = Bash
  BY <1>1, BashAre, PlainMessages
<1> HIDE DEF x
<1>3. x # <<>> => ~IsAssistant(x[1])
  <2>1. x # <<>> => 1 \in 1..pendingBash
    BY <1>2, EmptySeq
  <2> QED
    BY <1>2, <2>1, RolesOf DEF IsAssistant
<1>4. ms \o x # <<>> => ~IsAssistant((ms \o x)[1])
  <2>1. CASE ms = <<>>
    BY <1>2, <1>3, <2>1, Longer
  <2>2. CASE ms # <<>>
    BY <1>2, <2>2, Longer
  <2> QED
    BY <2>1, <2>2
<1>5. ms \o x \in Seq(Messages) /\ (ms # <<>> => ms \o x # <<>>)
  BY <1>2, Longer
<1> QED
  BY <1>1, <1>2, <1>4, <1>5 DEF x

LEMMA LoneRetry ==
  ASSUME AInv, ~overlapped, retryAttempt # 0, NEW d \in Drivers, driver[d].phase # "off"
  PROVE  Retrying(d)
<1>1. PICK e \in Drivers : Retrying(e)
  BY DEF AInv, Alone
<1>2. driver[e].phase # "off"
  BY <1>1 DEF Retrying
<1>3. d = e
  BY <1>2 DEF AInv, Alone
<1> QED
  BY <1>1, <1>3

LEMMA ThrowKeeps ==
  ASSUME AInv, ~Settling, NEW d \in Drivers, Throw(d),
         \/ driver[d].phase = "submit" /\ isStreaming
         \/ driver[d].phase = "resume" /\ continueRefused
  PROVE  AInv' /\ StatusStep
<1> DEFINE x == BashMessages(pendingBash)
<1>1. messages \in Seq(Messages) /\ Len(persisted) \in Nat /\ (messages # <<>> => ~IsAssistant(messages[1]))
      /\ firstKept \in 1..(Len(persisted) + 1) /\ retryAttempt \in 0..MaxRetries
  BY DEF AInv, Types, Begun, InsideFile
<1>2. /\ messages' = messages \o x /\ persisted' = persisted \o x /\ pendingBash' = 0
      /\ driver' = [driver EXCEPT ![d] = NoDriver]
  BY DEF Throw, flushPendingBashMessages
<1>3. /\ x \in Seq(Messages) /\ Plain(x)
      /\ messages' \in Seq(Messages) /\ (messages # <<>> => messages' # <<>>)
      /\ messages' # <<>> => ~IsAssistant(messages'[1])
      /\ pendingBash' \in 0..bashRuns
  BY <1>1, <1>2, Flushed
<1> HIDE DEF x
<1>4. isStreaming \/ ~hasQueuedMessages
  BY DEF continueRefused, AInv, Begun
<1>5. ~(~overlapped /\ retryAttempt # 0)
  <2>1. SUFFICES ASSUME ~overlapped, retryAttempt # 0 PROVE FALSE
    OBVIOUS
  <2>2. Retrying(d)
    BY <2>1, LoneRetry
  <2>3. driver[d].phase = "resume" /\ EndsOpen(messages)
    BY <2>2 DEF Retrying
  <2>4. ~isStreaming
    BY <2>1, <2>3 DEF AInv, OneRun, Alone
  <2>5. messages # <<>>
    BY <2>3 DEF AInv, Begun
  <2> QED
    BY <2>3, <2>4, <2>5 DEF continueRefused, LastIsAssistant, EndsOpen, Last
<1>6. sleeper # None => sleeper # d
  BY DEF AInv, OneRun
<1>7. HoldsText(NoDriver)
  BY NoDriverRecord DEF HoldsText
<1>8. DriverMove(d, NoDriver, x)
  BY <1>1, <1>2, <1>3, <1>4, <1>5, <1>6, <1>7, NoDriverRecord DEF DriverMove, Throw
<1> QED
  BY <1>8, DriverMoveKeeps

(* What a driver that has nothing to wait for any more goes on as. *)
Proceeds(d, r, x) ==
  /\ r \in DriverRecords /\ HoldsText(r) /\ driver' = [driver EXCEPT ![d] = r]
  /\ r.phase \notin {"running", "post", "sleep"} /\ r.text \in {driver[d].text, None}
  /\ x \in Seq(Messages) /\ Plain(x) /\ persisted' = persisted \o x
  /\ r.len <= Len(persisted)
  /\ messages' \in Seq(Messages) /\ messages' # <<>> /\ ~IsAssistant(messages'[1])
  /\ r.phase = "off" => ~hasQueuedMessages
  /\ pendingBash' \in 0..bashRuns

(* A driver's record while its driver goes on: msg may be set. *)
Holding(d, d0) ==
  /\ d \in Drivers /\ d0 \in DriverRecords /\ d0.text = driver[d].text
  /\ d0.then = "submit" => d0.text # None
  /\ d0.len <= Len(persisted) /\ d0.msg # None
  /\ messages # <<>>

LEMMA ConcludedIs ==
  ASSUME NEW d0 \in DriverRecords, d0.then = "submit" => d0.text # None
  PROVE  /\ Concluded(d0) \in DriverRecords /\ HoldsText(Concluded(d0))
         /\ Concluded(d0).phase \in {"submit", "off"}
         /\ Concluded(d0).text \in {d0.text, None}
         /\ Concluded(d0).len \in {d0.len, 0}
<1>1. CASE d0.then = "submit"
  <2> DEFINE r == [d0 EXCEPT !.phase = "submit"]
  <2>1. r \in DriverRecords /\ r.phase = "submit" /\ r.text = d0.text /\ r.len = d0.len
    BY DriverRecord DEF Phases
  <2>2. Concluded(d0) = r
    BY <1>1 DEF Concluded
  <2> HIDE DEF r
  <2> QED
    BY <1>1, <2>1, <2>2 DEF HoldsText
<1>2. CASE d0.then # "submit"
  BY <1>2, NoDriverRecord DEF Concluded, HoldsText
<1> QED
  BY <1>1, <1>2

LEMMA ContinueProceeds ==
  ASSUME AInv, NEW d, NEW d0, Holding(d, d0), ContinueOrEnd(d, d0)
  PROVE  \E r, x : Proceeds(d, r, x)
<1>1. /\ messages \in Seq(Messages) /\ persisted \in Seq(Messages) /\ messages # <<>>
      /\ ~IsAssistant(messages[1]) /\ Len(persisted) \in Nat /\ d0 \in DriverRecords
      /\ d0.len <= Len(persisted) /\ d0.text = driver[d].text /\ d0.len \in Nat
  BY DEF AInv, Types, Begun, Holding, DriverRecords
<1>2. CASE /\ hasQueuedMessages
           /\ driver' = [driver EXCEPT ![d] = [d0 EXCEPT !.phase = "resume"]]
           /\ UNCHANGED <<messages, persisted, pendingBash>>
  <2> DEFINE r == [d0 EXCEPT !.phase = "resume"]
  <2>1. /\ r \in DriverRecords /\ r.phase = "resume" /\ r.text = d0.text /\ r.len = d0.len
        /\ r.then = d0.then
    BY <1>1, DriverRecord DEF Phases
  <2>2. driver' = [driver EXCEPT ![d] = r]
    BY <1>2
  <2> HIDE DEF r
  <2>3. HoldsText(r)
    BY <2>1 DEF HoldsText, Holding
  <2>4. <<>> \in Seq(Messages) /\ Plain(<<>>) /\ persisted' = persisted \o <<>>
    BY <1>1, <1>2, ConcatEmptySeq, PlainMessages
  <2>5. Proceeds(d, r, <<>>)
    BY <1>1, <1>2, <2>1, <2>2, <2>3, <2>4 DEF Proceeds, AInv, Types
  <2> QED
    BY <2>5
<1>3. CASE /\ ~hasQueuedMessages
           /\ driver' = [driver EXCEPT ![d] = Concluded(d0)]
           /\ flushPendingBashMessages
  <2> DEFINE r == Concluded(d0)
             x == BashMessages(pendingBash)
  <2>1. /\ r \in DriverRecords /\ HoldsText(r) /\ r.phase \in {"submit", "off"}
        /\ r.text \in {d0.text, None} /\ r.len \in {d0.len, 0}
    BY <1>1, ConcludedIs DEF Holding
  <2>2. /\ driver' = [driver EXCEPT ![d] = r] /\ pendingBash' = 0
        /\ messages' = messages \o x /\ persisted' = persisted \o x
    BY <1>3 DEF flushPendingBashMessages
  <2>3. /\ x \in Seq(Messages) /\ Plain(x) /\ messages' \in Seq(Messages)
        /\ messages' # <<>> /\ ~IsAssistant(messages'[1]) /\ pendingBash' \in 0..bashRuns
    BY <1>1, <2>2, Flushed
  <2> HIDE DEF r, x
  <2>4. r.len <= Len(persisted)
    BY <1>1, <2>1
  <2>5. Proceeds(d, r, x)
    BY <1>1, <1>3, <2>1, <2>2, <2>3, <2>4 DEF Proceeds
  <2> QED
    BY <2>5
<1> QED
  BY <1>2, <1>3 DEF ContinueOrEnd

LEMMA Decisions ==
  ASSUME NEW m, NEW skip, NEW decision \in checkCompaction(m, skip), decision # "none"
  PROVE  decision \in {"threshold", "overflow"}
<1> DEFINE c1 == skip /\ m.stop = "aborted"
           c2 == m.turn <= compactedAt
           c3 == m.stop \in {"overflow", "silent"}
           c4 == m.stop \in Errors /\ ~\E a \in {b \in Range(messages) : IsAssistant(b) /\ b.stop \notin Failed} :
                                         a.turn > compactedAt
           o == {IF overflowTried THEN "none" ELSE "overflow"}
<1>1. checkCompaction(m, skip) =
        CASE c1 -> {"none"} [] c2 -> {"none"} [] c3 -> o [] c4 -> {"none"}
          [] OTHER -> {"none", "threshold"}
  BY DEF checkCompaction
<1>2. o \subseteq {"none", "overflow"}
  OBVIOUS
<1> HIDE DEF c1, c2, c3, c4, o
<1>3. checkCompaction(m, skip) \in {{"none"}, o, {"none", "threshold"}}
  BY <1>1
<1> QED
  BY <1>2, <1>3

(* The record of a driver that starts a compaction. *)
Compacting(d0, reason, n) == [d0 EXCEPT !.phase = "compact", !.reason = reason, !.len = n]

LEMMA CompactRecord ==
  ASSUME NEW d0 \in DriverRecords, NEW reason \in {"threshold", "overflow"}, NEW n \in Nat
  PROVE  /\ Compacting(d0, reason, n) \in DriverRecords
         /\ Compacting(d0, reason, n).phase = "compact"
         /\ Compacting(d0, reason, n).text = d0.text
         /\ Compacting(d0, reason, n).len = n
         /\ Compacting(d0, reason, n).msg = d0.msg
         /\ Compacting(d0, reason, n).then = d0.then
BY DEF Compacting, DriverRecords, Phases

LEMMA AfterRetryProceeds ==
  ASSUME AInv, NEW d, NEW d0, Holding(d, d0), AfterRetry(d, d0)
  PROVE  \E r, x : Proceeds(d, r, x)
<1>1. PICK decision \in checkCompaction(d0.msg, TRUE) :
         \/ decision = "none" /\ ContinueOrEnd(d, d0)
         \/ /\ decision # "none" /\ StartCompaction(d, d0, decision, messages)
            /\ UNCHANGED <<persisted, pendingBash>>
  BY DEF AfterRetry
<1>2. CASE decision = "none"
  BY <1>1, <1>2, ContinueProceeds
<1>3. CASE decision # "none"
  <2> DEFINE r == Compacting(d0, decision, Len(persisted))
  <2>1. /\ messages \in Seq(Messages) /\ persisted \in Seq(Messages) /\ messages # <<>>
        /\ ~IsAssistant(messages[1]) /\ Len(persisted) \in Nat /\ d0 \in DriverRecords
        /\ d0.text = driver[d].text
    BY DEF AInv, Types, Begun, Holding
  <2>2. decision \in {"threshold", "overflow"}
    BY <1>1, <1>3, Decisions
  <2>3. /\ r \in DriverRecords /\ r.phase = "compact" /\ r.text = d0.text
        /\ r.len = Len(persisted) /\ r.msg = d0.msg /\ r.then = d0.then
    <3> DEFINE n == Len(persisted)
    <3>1. n \in Nat /\ d0 \in DriverRecords /\ decision \in {"threshold", "overflow"}
      BY <2>1, <2>2
    <3> HIDE DEF n
    <3>2. /\ Compacting(d0, decision, n) \in DriverRecords
          /\ Compacting(d0, decision, n).phase = "compact" /\ Compacting(d0, decision, n).text = d0.text
          /\ Compacting(d0, decision, n).len = n /\ Compacting(d0, decision, n).msg = d0.msg
          /\ Compacting(d0, decision, n).then = d0.then
      BY <3>1, CompactRecord
    <3> QED
      BY <3>2 DEF n
  <2>4. driver' = [driver EXCEPT ![d] = r]
        /\ messages' = IF decision = "overflow" THEN Stripped(messages) ELSE messages
    BY <1>1, <1>3 DEF StartCompaction, Compacting
  <2> HIDE DEF r
  <2>5. messages' \in Seq(Messages) /\ messages' # <<>> /\ ~IsAssistant(messages'[1])
    BY <2>1, <2>4, StrippedOf
  <2>6. HoldsText(r)
    BY <2>3 DEF HoldsText, Holding
  <2>7. <<>> \in Seq(Messages) /\ Plain(<<>>) /\ persisted' = persisted \o <<>>
    BY <1>1, <1>3, <2>1, ConcatEmptySeq, PlainMessages
  <2>8. pendingBash' \in 0..bashRuns
    BY <1>1, <1>3 DEF AInv, Types
  <2>9. Proceeds(d, r, <<>>)
    BY <2>1, <2>3, <2>4, <2>5, <2>6, <2>7, <2>8 DEF Proceeds
  <2> QED
    BY <2>9
<1> QED
  BY <1>2, <1>3

(* A driver that proceeds leaves the counter of retries at zero. *)
LEMMA ProceedsKeeps ==
  ASSUME AInv, NEW d \in Drivers, NEW r, NEW x, Proceeds(d, r, x),
         driver[d].phase \notin {"off", "running"}, driver[d].phase = "post" \/ ~Settling,
         UNCHANGED <<steering, followUp, pending, pc, batch, turns, firstKept,
                     steeringTexts, followUpTexts, used, cleared, overlapped, bashRuns>>,
         sleeper' = None \/ (sleeper' = sleeper /\ driver[d].phase # "sleep"),
         lastAssistant' \in {lastAssistant, None},
         isStreaming => lastAssistant' = lastAssistant,
         retryAttempt' \in 0..MaxRetries, ~overlapped => retryAttempt' = 0
  PROVE  AInv' /\ StatusStep
<1>1. sleeper' = None \/ (sleeper' = sleeper /\ sleeper # d)
  BY DEF AInv, OneRun
<1>2. DriverMove(d, r, x)
  BY <1>1 DEF Proceeds, DriverMove
<1> QED
  BY <1>2, DriverMoveKeeps

LEMMA PostKeeps ==
  ASSUME AInv, NEW d \in Drivers, handlePostAgentRun(d)
  PROVE  AInv' /\ StatusStep
<1> DEFINE d0 == [driver[d] EXCEPT !.msg = lastAssistant]
<1>1. driver[d].phase = "post" /\ lastAssistant # None /\ Idle
  BY DEF handlePostAgentRun, AInv, OneRun
<1>2. /\ driver[d] \in DriverRecords /\ HoldsText(driver[d]) /\ lastAssistant \in AnswerMessages
      /\ messages \in Seq(Messages) /\ persisted \in Seq(Messages) /\ Len(persisted) \in Nat
      /\ driver[d].len <= Len(persisted) /\ messages # <<>> /\ ~IsAssistant(messages[1])
      /\ retryAttempt \in 0..MaxRetries /\ pendingBash \in 0..bashRuns
  BY <1>1 DEF AInv, Types, InsideFile, Begun
<1>3. /\ d0 \in DriverRecords /\ d0.msg = lastAssistant /\ d0.text = driver[d].text
      /\ d0.then = driver[d].then /\ d0.len = driver[d].len
  BY <1>2 DEF DriverRecords
<1>4. /\ lastAssistant' = None
      /\ UNCHANGED <<steering, followUp, pending, pc, batch, turns, firstKept, steeringTexts,
                     followUpTexts, bashRuns, used, cleared, overlapped>>
  BY DEF handlePostAgentRun
<1>5. ~isStreaming /\ lastAssistant' \in {lastAssistant, None}
  BY <1>1, <1>4 DEF isStreaming
<1>6. CASE /\ prepareRetry(lastAssistant)
           /\ retryAttempt' = retryAttempt + 1
           /\ messages' = Stripped(messages)
           /\ sleeper' = d
           /\ driver' = [driver EXCEPT ![d] = [d0 EXCEPT !.phase = "sleep"]]
           /\ UNCHANGED <<persisted, pendingBash, overflowTried>>
  <2> DEFINE r == [d0 EXCEPT !.phase = "sleep"]
  <2>1. /\ r \in DriverRecords /\ r.phase = "sleep" /\ r.text = driver[d].text
        /\ r.then = driver[d].then /\ r.len = driver[d].len /\ r.msg = lastAssistant
    BY <1>3, DriverRecord DEF Phases
  <2>2. driver' = [driver EXCEPT ![d] = r]
    BY <1>6
  <2> HIDE DEF r, d0
  <2>3. HoldsText(r)
    BY <1>1, <1>2, <2>1 DEF HoldsText
  <2>4. <<>> \in Seq(Messages) /\ Plain(<<>>) /\ persisted' = persisted \o <<>>
    BY <1>2, <1>6, ConcatEmptySeq, PlainMessages
  <2>5. messages' \in Seq(Messages) /\ messages' # <<>> /\ ~IsAssistant(messages'[1])
        /\ (EndsOnce(messages) => EndsOpen(messages'))
    BY <1>2, <1>6, StrippedOf
  <2>6. ~overlapped => EndsOpen(messages')
    <3>1. lastAssistant.stop \in Errors /\ Settling
      BY <1>1, <1>6 DEF prepareRetry, Errors, Settling
    <3> QED
      BY <2>5, <3>1 DEF AInv, Alone
  <2>7. retryAttempt' \in 0..MaxRetries
    BY <1>2, <1>6, RetryAssumption DEF prepareRetry
  <2>8. DriverMove(d, r, <<>>)
    BY <1>1, <1>2, <1>4, <1>5, <1>6, <2>1, <2>2, <2>3, <2>4, <2>5, <2>6, <2>7 DEF DriverMove
  <2> QED
    BY <2>8, DriverMoveKeeps
<1>7. CASE /\ retryAttempt' = IF lastAssistant.stop \in Errors THEN 0 ELSE retryAttempt
           /\ AfterRetry(d, d0)
           /\ UNCHANGED sleeper
  <2> HIDE DEF d0
  <2>1. Holding(d, d0)
    BY <1>1, <1>2, <1>3 DEF Holding, HoldsText
  <2>2. PICK r, x : Proceeds(d, r, x)
    BY <1>7, <2>1, AfterRetryProceeds
  <2>3. ~overlapped => retryAttempt' = 0
    BY <1>1, <1>7, LoneRetry DEF Retrying
  <2>4. retryAttempt' \in 0..MaxRetries
    BY <1>2, <1>7, RetryAssumption
  <2> QED
    BY <1>1, <1>4, <1>5, <1>7, <2>2, <2>3, <2>4, ProceedsKeeps
<1> QED
  BY <1>1, <1>6, <1>7 DEF handlePostAgentRun

LEMMA DelayEndsKeeps ==
  ASSUME AInv, ~Settling, NEW d \in Drivers, retryDelayEnds(d)
  PROVE  AInv' /\ StatusStep
<1> DEFINE r == [driver[d] EXCEPT !.phase = "resume"]
<1>1. /\ driver[d].phase = "sleep" /\ sleeper' = None
      /\ UNCHANGED <<loopVars, persisted, firstKept, steeringTexts, followUpTexts, lastAssistant,
                     retryAttempt, pendingBash, bashRuns, used, cleared, overlapped>>
  BY DEF retryDelayEnds
<1>2. /\ driver[d] \in DriverRecords /\ HoldsText(driver[d]) /\ driver \in [Drivers -> DriverRecords]
      /\ messages \in Seq(Messages) /\ persisted \in Seq(Messages)
      /\ driver[d].len <= Len(persisted) /\ messages # <<>> /\ ~IsAssistant(messages[1])
      /\ retryAttempt \in 0..MaxRetries /\ pendingBash \in 0..bashRuns
  BY <1>1 DEF AInv, Types, InsideFile, Begun
<1>3. /\ r \in DriverRecords /\ r.phase = "resume" /\ r.text = driver[d].text
      /\ r.then = driver[d].then /\ r.len = driver[d].len /\ r.msg = driver[d].msg
  BY <1>2, DriverRecord DEF Phases
<1>4. driver' = [driver EXCEPT ![d] = r]
  BY <1>2 DEF retryDelayEnds
<1> HIDE DEF r
<1>5. HoldsText(r)
  BY <1>2, <1>3 DEF HoldsText
<1>6. <<>> \in Seq(Messages) /\ Plain(<<>>) /\ persisted' = persisted \o <<>>
  BY <1>1, <1>2, ConcatEmptySeq, PlainMessages
<1>7. ~overlapped /\ retryAttempt # 0 => EndsOpen(messages)
  BY <1>1, LoneRetry DEF Retrying
<1>8. DriverMove(d, r, <<>>)
  BY <1>1, <1>2, <1>3, <1>4, <1>5, <1>6, <1>7 DEF DriverMove, loopVars
<1> QED
  BY <1>8, DriverMoveKeeps

LEMMA AbortRetryKeeps ==
  ASSUME AInv, ~Settling, abortRetry
  PROVE  AInv' /\ StatusStep
<1>1. /\ sleeper \in Drivers /\ driver[sleeper].phase = "sleep"
      /\ driver[sleeper] \in DriverRecords /\ HoldsText(driver[sleeper])
      /\ driver[sleeper].len <= Len(persisted) /\ messages # <<>>
  BY DEF abortRetry, AInv, Types, OneRun, InsideFile, Begun
<1>2. Holding(sleeper, driver[sleeper])
  BY <1>1 DEF Holding, HoldsText
<1>3. /\ AfterRetry(sleeper, driver[sleeper]) /\ retryAttempt' = 0 /\ sleeper' = None
      /\ UNCHANGED <<steering, followUp, pending, pc, batch, turns, firstKept, steeringTexts,
                     followUpTexts, lastAssistant, bashRuns, used, cleared, overlapped>>
  BY DEF abortRetry
<1>4. PICK r, x : Proceeds(sleeper, r, x)
  BY <1>2, <1>3, AfterRetryProceeds
<1>5. 0 \in 0..MaxRetries
  BY RetryAssumption
<1> QED
  BY <1>1, <1>3, <1>4, <1>5, ProceedsKeeps

LEMMA CompactionFailsKeeps ==
  ASSUME AInv, ~Settling, NEW d \in Drivers, compactionFails(d)
  PROVE  AInv' /\ StatusStep
<1>1. /\ driver[d].phase = "compact"
      /\ UNCHANGED <<steering, followUp, pending, pc, batch, turns, firstKept, steeringTexts,
                     followUpTexts, lastAssistant, retryAttempt, sleeper, bashRuns, used,
                     cleared, overlapped>>
  BY DEF compactionFails
<1>2. /\ driver[d] \in DriverRecords /\ HoldsText(driver[d]) /\ driver \in [Drivers -> DriverRecords]
      /\ messages \in Seq(Messages) /\ persisted \in Seq(Messages)
      /\ driver[d].len <= Len(persisted) /\ (messages # <<>> => ~IsAssistant(messages[1]))
      /\ (driver[d].msg # None => messages # <<>>)
      /\ retryAttempt \in 0..MaxRetries /\ pendingBash \in 0..bashRuns
  BY <1>1 DEF AInv, Types, InsideFile, Begun
<1>3. ~overlapped => retryAttempt' = 0
  BY <1>1, LoneRetry DEF Retrying
<1>4. CASE driver[d].msg # None /\ ContinueOrEnd(d, driver[d])
  <2>1. Holding(d, driver[d])
    BY <1>2, <1>4 DEF Holding, HoldsText
  <2>2. PICK r, x : Proceeds(d, r, x)
    BY <1>4, <2>1, ContinueProceeds
  <2> QED
    BY <1>1, <1>2, <1>3, <2>2, ProceedsKeeps
<1>5. CASE /\ driver[d].msg = None
           /\ driver' = [driver EXCEPT ![d].phase = "submit"]
           /\ UNCHANGED <<messages, persisted, pendingBash>>
  <2> DEFINE r == [driver[d] EXCEPT !.phase = "submit"]
  <2>1. /\ r \in DriverRecords /\ r.phase = "submit" /\ r.text = driver[d].text
        /\ r.then = driver[d].then /\ r.len = driver[d].len /\ r.msg = driver[d].msg
    BY <1>2, DriverRecord DEF Phases
  <2>2. driver' = [driver EXCEPT ![d] = r]
    BY <1>2, <1>5
  <2> HIDE DEF r
  <2>3. HoldsText(r)
    BY <1>1, <1>2, <1>5, <2>1 DEF HoldsText
  <2>4. <<>> \in Seq(Messages) /\ Plain(<<>>) /\ persisted' = persisted \o <<>>
    BY <1>2, <1>5, ConcatEmptySeq, PlainMessages
  <2>5. sleeper # None => sleeper # d
    BY <1>1 DEF AInv, OneRun
  <2>6. DriverMove(d, r, <<>>)
    BY <1>1, <1>2, <1>3, <1>5, <2>1, <2>2, <2>3, <2>4, <2>5 DEF DriverMove
  <2> QED
    BY <2>6, DriverMoveKeeps
<1> QED
  BY <1>4, <1>5 DEF compactionFails

LEMMA RebuiltIs ==
  ASSUME persisted \in Seq(Messages), NEW k \in 1..Len(persisted)
  PROVE  /\ RebuiltFrom(k) \in Seq(Messages) /\ RebuiltFrom(k) # <<>>
         /\ ~IsAssistant(RebuiltFrom(k)[1])
<1> DEFINE n == Len(persisted)
           s == SubSeq(persisted, k, n)
<1>1. n \in Nat /\ k \in 1..n /\ \A i \in 1..n : persisted[i] \in Messages
  OBVIOUS
<1>2. s \in Seq(Messages)
  <2>1. s = [i \in 1..(n - k + 1) |-> persisted[i + k - 1]] /\ n - k + 1 \in Nat
    BY <1>1
  <2>2. \A i \in 1..(n - k + 1) : i + k - 1 \in 1..n
    BY <1>1
  <2>3. \A i \in 1..(n - k + 1) : persisted[i + k - 1] \in Messages
    BY <1>1, <2>2
  <2> QED
    BY <2>1, <2>3
<1> HIDE DEF s
<1>3. Summary \in Messages /\ ~IsAssistant(Summary)
  BY RolesOf DEF Messages, IsAssistant
<1>4. <<Summary>> \in Seq(Messages) /\ <<Summary>> # <<>> /\ <<Summary>>[1] = Summary
  BY <1>3
<1>5. RebuiltFrom(k) = <<Summary>> \o s
  BY DEF RebuiltFrom, s
<1> QED
  BY <1>2, <1>3, <1>4, <1>5, Longer

LEMMA CompactionSucceedsKeeps ==
  ASSUME AInv, ~Settling, NEW d \in Drivers, compactionSucceeds(d)
  PROVE  AInv' /\ StatusStep
<1>1. /\ driver[d].phase = "compact"
      /\ UNCHANGED <<steering, followUp, pending, pc, batch, turns, steeringTexts,
                     followUpTexts, lastAssistant, retryAttempt, sleeper, bashRuns, used,
                     cleared, overlapped>>
  BY DEF compactionSucceeds
<1>2. /\ driver[d] \in DriverRecords /\ HoldsText(driver[d]) /\ driver \in [Drivers -> DriverRecords]
      /\ persisted \in Seq(Messages) /\ Len(persisted) \in Nat
      /\ driver[d].len <= Len(persisted) /\ driver[d].len \in Nat
      /\ firstKept \in 1..(Len(persisted) + 1)
      /\ retryAttempt \in 0..MaxRetries /\ pendingBash \in 0..bashRuns
  BY <1>1 DEF AInv, Types, InsideFile, DriverRecords
<1>3. ~(~overlapped /\ retryAttempt' # 0)
  BY <1>1, LoneRetry DEF Retrying
<1>4. sleeper # None => sleeper # d
  BY <1>1 DEF AInv, OneRun
<1>5. PICK k \in findValidCutPoints(driver[d].len) :
         LET rebuilt == RebuiltFrom(k)
             failed == IsAssistant(Last(rebuilt)) /\ Last(rebuilt).stop \in Errors
             overflow == driver[d].reason = "overflow"
         IN  /\ firstKept' = k
             /\ \/ /\ overflow \/ hasQueuedMessages
                   /\ messages' = IF overflow /\ failed THEN Front(rebuilt) ELSE rebuilt
                   /\ driver' = [driver EXCEPT ![d].phase = "resume"]
                   /\ UNCHANGED <<persisted, pendingBash>>
                \/ /\ ~overflow /\ ~hasQueuedMessages
                   /\ driver' = [driver EXCEPT ![d] = Concluded(driver[d])]
                   /\ messages' = rebuilt \o BashMessages(pendingBash)
                   /\ persisted' = persisted \o BashMessages(pendingBash)
                   /\ pendingBash' = 0
  BY DEF compactionSucceeds
<1>6. k \in 1..Len(persisted) /\ firstKept' = k
  BY <1>2, <1>5 DEF findValidCutPoints
<1> DEFINE rebuilt == RebuiltFrom(k)
<1>7. rebuilt \in Seq(Messages) /\ rebuilt # <<>> /\ ~IsAssistant(rebuilt[1])
  BY <1>2, <1>6, RebuiltIs
<1>8. CASE /\ messages' \in {rebuilt, Front(rebuilt)}
           /\ messages' = rebuilt \/ IsAssistant(Last(rebuilt))
           /\ driver' = [driver EXCEPT ![d].phase = "resume"]
           /\ UNCHANGED <<persisted, pendingBash>>
  <2> DEFINE r == [driver[d] EXCEPT !.phase = "resume"]
  <2>1. /\ r \in DriverRecords /\ r.phase = "resume" /\ r.text = driver[d].text
        /\ r.then = driver[d].then /\ r.len = driver[d].len /\ r.msg = driver[d].msg
    BY <1>2, DriverRecord DEF Phases
  <2>2. driver' = [driver EXCEPT ![d] = r]
    BY <1>2, <1>8
  <2> HIDE DEF r, rebuilt
  <2>3. HoldsText(r)
    BY <1>2, <2>1 DEF HoldsText
  <2>4. <<>> \in Seq(Messages) /\ Plain(<<>>) /\ persisted' = persisted \o <<>>
    BY <1>2, <1>8, ConcatEmptySeq, PlainMessages
  <2>5. messages' \in Seq(Messages) /\ messages' # <<>> /\ ~IsAssistant(messages'[1])
    <3>1. messages' \in {rebuilt, Stripped(rebuilt)}
      BY <1>7, <1>8 DEF Stripped
    <3> QED
      BY <1>7, <3>1, StrippedOf
  <2>6. firstKept' \in 1..(Len(persisted) + 1)
    BY <1>2, <1>6
  <2>7. DriverMove(d, r, <<>>)
    BY <1>1, <1>2, <1>3, <1>4, <1>8, <2>1, <2>2, <2>3, <2>4, <2>5, <2>6 DEF DriverMove
  <2> QED
    BY <2>7, DriverMoveKeeps
<1>9. CASE /\ ~hasQueuedMessages
           /\ driver' = [driver EXCEPT ![d] = Concluded(driver[d])]
           /\ messages' = rebuilt \o BashMessages(pendingBash)
           /\ persisted' = persisted \o BashMessages(pendingBash)
           /\ pendingBash' = 0
  <2> DEFINE r == Concluded(driver[d])
             x == BashMessages(pendingBash)
  <2>1. /\ r \in DriverRecords /\ HoldsText(r) /\ r.phase \in {"submit", "off"}
        /\ r.text \in {driver[d].text, None} /\ r.len \in {driver[d].len, 0}
    BY <1>2, ConcludedIs DEF HoldsText
  <2>2. driver' = [driver EXCEPT ![d] = r] /\ messages' = rebuilt \o x /\ persisted' = persisted \o x
    BY <1>9
  <2> HIDE DEF rebuilt
  <2>3. /\ x \in Seq(Messages) /\ Plain(x) /\ messages' \in Seq(Messages)
        /\ messages' # <<>> /\ ~IsAssistant(messages'[1]) /\ pendingBash' \in 0..bashRuns
    BY <1>7, <1>9, Flushed
  <2> HIDE DEF r, x
  <2>4. r.len <= Len(persisted) /\ firstKept' \in 1..(Len(persisted) + 1)
    BY <1>2, <1>6, <2>1
  <2>5. DriverMove(d, r, x)
    BY <1>1, <1>2, <1>3, <1>4, <1>9, <2>1, <2>2, <2>3, <2>4 DEF DriverMove
  <2> QED
    BY <2>5, DriverMoveKeeps
<1> QED
  BY <1>5, <1>8, <1>9

LEMMA SubmitKeeps ==
  ASSUME AInv, ~Settling, NEW d \in Drivers, submit(d)
  PROVE  AInv' /\ StatusStep
BY SubmitStarts, ThrowKeeps DEF submit

LEMMA ResumeKeeps ==
  ASSUME AInv, ~Settling, NEW d \in Drivers, resume(d)
  PROVE  AInv' /\ StatusStep
BY ResumeStarts, ThrowKeeps DEF resume

-----------------------------------------------------------------------------
(* The end of a run, and the user. *)

LEMMA RunSettlesKeeps ==
  ASSUME AInv, RunSettles
  PROVE  AInv' /\ StatusStep
<1>1. /\ pc = "finish" /\ pc' = "idle" /\ batch' = NoBatch
      /\ UNCHANGED <<messages, steering, followUp, pending, turns, persisted, firstKept,
                     steeringTexts, followUpTexts, lastAssistant, retryAttempt, sleeper,
                     pendingBash, bashRuns, used, cleared, overlapped>>
  BY DEF RunSettles, finishRun
<1>2. /\ driver \in [Drivers -> DriverRecords]
      /\ driver' = [d \in Drivers |-> IF driver[d].phase = "running"
                                      THEN [driver[d] EXCEPT !.phase = "post"]
                                      ELSE driver[d]]
  BY DEF RunSettles, AInv, Types
<1>3. isStreaming /\ ~isStreaming' /\ Idle'
  BY <1>1 DEF isStreaming, Idle
<1>4. \A e \in Drivers :
        /\ driver'[e] \in DriverRecords
        /\ driver'[e].phase = IF driver[e].phase = "running" THEN "post" ELSE driver[e].phase
        /\ driver'[e].text = driver[e].text /\ driver'[e].then = driver[e].then
        /\ driver'[e].msg = driver[e].msg /\ driver'[e].len = driver[e].len
  <2>1. SUFFICES ASSUME NEW e \in Drivers
                 PROVE  /\ driver'[e] \in DriverRecords
                        /\ driver'[e].phase = IF driver[e].phase = "running" THEN "post" ELSE driver[e].phase
                        /\ driver'[e].text = driver[e].text /\ driver'[e].then = driver[e].then
                        /\ driver'[e].msg = driver[e].msg /\ driver'[e].len = driver[e].len
    OBVIOUS
  <2>2. driver[e] \in DriverRecords /\ "post" \in Phases
    BY <1>2 DEF Phases
  <2>3. driver'[e] = IF driver[e].phase = "running" THEN [driver[e] EXCEPT !.phase = "post"] ELSE driver[e]
    BY <1>2
  <2> QED
    BY <2>2, <2>3, DriverRecord
<1>5. PICK d \in Drivers : driver[d].phase = "running"
  BY <1>3 DEF AInv, OneRun
<1>6. \A e \in Drivers : driver[e].phase # "post"
  BY <1>3 DEF AInv, OneRun, isStreaming
<1>7. Types'
  <2>1. driver' \in [Drivers -> DriverRecords]
    BY <1>2, <1>4
  <2> QED
    BY <1>1, <2>1 DEF AInv, Types, NoBatch, Places
<1>8. InsideFile'
  BY <1>1, <1>4 DEF AInv, InsideFile
<1>9. (\A e \in Drivers : HoldsText(driver[e]))'
  <2>1. \A e \in Drivers : HoldsText(driver[e])
    BY DEF AInv
  <2>2. \A e \in Drivers : HoldsText(driver'[e])
    BY <1>4, <2>1 DEF HoldsText
  <2> QED
    BY <2>2 DEF HoldsText
<1>10. Placed' /\ StatusStep
  <2>1. LeavesQueues
    BY <1>1, <1>4 DEF LeavesQueues
  <2>2. persisted' = persisted \o <<>> /\ <<>> \in Seq(Messages) /\ Len(<<>>) = 0
    BY <1>1, ConcatEmptySeq DEF AInv, Types
  <2>3. \A i \in 1..Len(<<>>) : <<>>[i] \notin UserMessages
    BY <2>2
  <2> QED
    BY <2>1, <2>2, <2>3, LeavingKeepsPlaces DEF AInv, Placed
<1>11. OneRun'
  <2>1. \A e \in Drivers : driver'[e].phase # "running"
    BY <1>4
  <2>2. \A e \in Drivers : driver'[e].phase = "post" => driver[e].phase = "running"
    BY <1>4, <1>6
  <2>3. \A e, f \in Drivers :
          {driver'[e].phase, driver'[f].phase} \subseteq {"running", "post"} => e = f
    BY <2>1, <2>2 DEF AInv, OneRun
  <2>4. lastAssistant' # None
    BY <1>1 DEF AInv, HasAnswer
  <2>5. sleeper' # None => driver'[sleeper'].phase = "sleep"
    BY <1>1, <1>4 DEF AInv, OneRun, Types
  <2> QED
    BY <1>3, <2>1, <2>3, <2>4, <2>5 DEF OneRun
<1>12. HasAnswer'
  BY <1>1 DEF HasAnswer, Answered
<1>13. Begun'
  BY <1>1, <1>4 DEF AInv, Begun
<1>14. Attended'
  BY <1>4, <1>5 DEF Attended
<1>15. (~overlapped => Alone)'
  <2>1. SUFFICES ASSUME ~overlapped PROVE Alone'
    BY <1>1
  <2>2. Alone
    BY <2>1 DEF AInv
  <2>3. \A e, f \in Drivers : driver'[e].phase # "off" /\ driver'[f].phase # "off" => e = f
    BY <1>4, <2>2 DEF Alone
  <2>4. lastAssistant.stop \in Errors => EndsOnce(messages)
    BY <1>1, <2>2 DEF Alone
  <2>5. retryAttempt # 0 => lastAssistant.stop \in Errors
    BY <1>1, <1>3, <2>1, RetryInRun
  <2>6. retryAttempt' # 0 => Retrying(d)'
    BY <1>1, <1>4, <1>5, <2>5 DEF Retrying
  <2> QED
    BY <1>1, <2>3, <2>4, <2>6 DEF Alone, EndsOnce
<1> QED
  BY <1>7, <1>8, <1>9, <1>10, <1>11, <1>12, <1>13, <1>14, <1>15 DEF AInv, Placed

(* Steps that change nothing the invariant is about. *)
LEMMA NothingKeeps ==
  ASSUME AInv,
         UNCHANGED <<messages, steering, followUp, pc, pending, batch, turns, persisted, firstKept,
                     steeringTexts, followUpTexts, lastAssistant, retryAttempt, sleeper,
                     pendingBash, bashRuns, driver, used, cleared, overlapped>>
  PROVE  AInv' /\ StatusStep
<1>1. Types' /\ InsideFile' /\ (\A d \in Drivers : HoldsText(driver[d]))'
  BY DEF AInv, Types, InsideFile, HoldsText
<1>2. OnePlace' /\ OnlySent'
  BY DEF AInv, OnePlace, OnlySent
<1>3. MirrorMatchesQueues' /\ DeliveredOnce'
  BY DEF AInv, MirrorMatchesQueues, DeliveredOnce
<1>4. OneRun' /\ HasAnswer' /\ Begun' /\ Attended'
  BY DEF AInv, OneRun, HasAnswer, Begun, Attended, isStreaming, Idle, hasQueuedMessages
<1>5. (~overlapped => Alone)'
  BY DEF AInv, Alone, Settling, Retrying, EndsOpen, EndsOnce
<1>6. StatusStep
  BY StatusSame DEF Queued, Held
<1> QED
  BY <1>1, <1>2, <1>3, <1>4, <1>5, <1>6 DEF AInv

LEMMA BashKeeps ==
  ASSUME AInv, ~Settling, recordBashResult
  PROVE  AInv' /\ StatusStep
<1>1. /\ bashRuns' \in 0..MaxBash /\ bashRuns' = bashRuns + 1 /\ bashRuns \in Nat
      /\ pendingBash \in 0..bashRuns
  BY RetryAssumption DEF recordBashResult, AInv, Types
<1>2. UNCHANGED <<steering, followUp, pc, pending, batch, turns, firstKept, steeringTexts,
                  followUpTexts, lastAssistant, retryAttempt, sleeper, driver, used, cleared, overlapped>>
  BY DEF recordBashResult
<1>3. CASE isStreaming /\ pendingBash' = pendingBash + 1 /\ UNCHANGED <<messages, persisted>>
  <2>1. Types'
    <3>1. pendingBash' \in 0..bashRuns'
      BY <1>1, <1>3
    <3> QED
      BY <1>1, <1>2, <1>3, <3>1 DEF AInv, Types
  <2>2. InsideFile' /\ (\A d \in Drivers : HoldsText(driver[d]))'
    BY <1>2, <1>3 DEF AInv, InsideFile, HoldsText
  <2>3. OnePlace' /\ OnlySent'
    BY <1>2, <1>3 DEF AInv, OnePlace, OnlySent
  <2>4. MirrorMatchesQueues' /\ DeliveredOnce'
    BY <1>2, <1>3 DEF AInv, MirrorMatchesQueues, DeliveredOnce
  <2>5. OneRun' /\ HasAnswer' /\ Begun' /\ Attended'
    BY <1>2, <1>3 DEF AInv, OneRun, HasAnswer, Begun, Attended, isStreaming, Idle, hasQueuedMessages
  <2>6. (~overlapped => Alone)'
    BY <1>2, <1>3 DEF AInv, Alone, Settling, Retrying, EndsOpen, EndsOnce
  <2>7. StatusStep
    BY <1>2, <1>3, StatusSame DEF Queued, Held
  <2> QED
    BY <2>1, <2>2, <2>3, <2>4, <2>5, <2>6, <2>7 DEF AInv
<1>4. CASE /\ Idle /\ messages' = Append(messages, Bash) /\ persisted' = Append(persisted, Bash)
           /\ UNCHANGED pendingBash
  <2> DEFINE x == <<Bash>>
  <2>1. /\ messages \in Seq(Messages) /\ persisted \in Seq(Messages) /\ Bash \in Messages
        /\ x \in Seq(Messages) /\ x # <<>> /\ x[1] = Bash /\ Len(x) = 1 /\ Plain(x)
        /\ messages' = messages \o x /\ persisted' = persisted \o x
    BY <1>4, OneMessage, PlainMessages DEF AInv, Types, Messages
  <2>2. ~IsAssistant(Bash)
    BY RolesOf DEF IsAssistant
  <2> HIDE DEF x
  <2>3. /\ messages' \in Seq(Messages) /\ persisted' \in Seq(Messages) /\ messages' # <<>>
        /\ Len(persisted') >= Len(persisted) /\ Len(persisted) \in Nat /\ Len(persisted') \in Nat
        /\ ~IsAssistant(messages'[1])
    <3>1. ~IsAssistant(messages'[1])
      <4>1. CASE messages = <<>>
        BY <2>1, <2>2, <4>1, Longer
      <4>2. CASE messages # <<>>
        BY <2>1, <4>2, Longer DEF AInv, Begun
      <4> QED
        BY <4>1, <4>2
    <3> QED
      BY <2>1, <3>1, Longer
  <2>4. Types'
    <3>1. pendingBash' \in 0..bashRuns'
      BY <1>1, <1>4
    <3> QED
      BY <1>1, <1>2, <2>3, <3>1 DEF AInv, Types
  <2>5. InsideFile'
    <3>1. \A e \in Drivers : driver[e].len <= Len(persisted) /\ driver[e].len \in Nat
      BY DEF AInv, InsideFile, Types, DriverRecords
    <3>2. firstKept \in 1..(Len(persisted) + 1)
      BY DEF AInv, InsideFile
    <3> QED
      BY <1>2, <2>3, <3>1, <3>2 DEF InsideFile
  <2>6. (\A d \in Drivers : HoldsText(driver[d]))'
    BY <1>2 DEF AInv, HoldsText
  <2>7. Placed' /\ StatusStep
    <3>1. LeavesQueues
      BY <1>2 DEF LeavesQueues
    <3>2. \A i \in 1..Len(x) : x[i] \notin UserMessages
      BY <2>1 DEF Plain
    <3> QED
      BY <2>1, <3>1, <3>2, LeavingKeepsPlaces DEF AInv, Placed
  <2>8. OneRun' /\ HasAnswer' /\ Attended'
    BY <1>2 DEF AInv, OneRun, HasAnswer, Attended, isStreaming, Idle, hasQueuedMessages
  <2>9. Begun'
    BY <2>3 DEF Begun
  <2>10. (~overlapped => Alone)'
    <3>1. SUFFICES ASSUME ~overlapped PROVE Alone'
      BY <1>2
    <3>2. Alone
      BY <3>1 DEF AInv
    <3>3. EndsOpen(messages')
      BY <2>1, EndsInPlain DEF Plain
    <3>4. retryAttempt' # 0 => \E d \in Drivers : Retrying(d)'
      <4>1. SUFFICES ASSUME retryAttempt # 0 PROVE \E d \in Drivers : Retrying(d)'
        BY <1>2
      <4>2. PICK d \in Drivers : Retrying(d)
        BY <3>2, <4>1 DEF Alone
      <4>3. driver[d].phase \in {"sleep", "resume"}
        BY <1>4, <4>2 DEF Retrying, Settling, Idle
      <4>4. Retrying(d)'
        BY <1>2, <3>3, <4>3 DEF Retrying, EndsOpen
      <4> QED
        BY <4>4
    <3>5. pc' = "idle" /\ ~Settling'
      BY <1>2, <1>4 DEF Idle, Settling
    <3>6. \A d, e \in Drivers : driver'[d].phase # "off" /\ driver'[e].phase # "off" => d = e
      BY <1>2, <3>2 DEF Alone
    <3> QED
      BY <3>4, <3>5, <3>6 DEF Alone
  <2> QED
    BY <2>4, <2>5, <2>6, <2>7, <2>8, <2>9, <2>10 DEF AInv, Placed
<1> QED
  BY <1>3, <1>4 DEF recordBashResult

(* The parts of the invariant that the queues are not part of. *)
LEMMA BesidesQueues ==
  ASSUME AInv,
         UNCHANGED <<messages, pc, pending, batch, turns, persisted, firstKept, lastAssistant,
                     retryAttempt, sleeper, pendingBash, bashRuns, driver, overlapped>>,
         steering' \in Seq(Texts), followUp' \in Seq(Texts), used' \subseteq Texts
  PROVE  /\ Types' /\ InsideFile' /\ (\A d \in Drivers : HoldsText(driver[d]))'
         /\ OneRun' /\ HasAnswer' /\ Begun' /\ DeliveredOnce'
         /\ (~overlapped => Alone)'
<1>1. Types' /\ InsideFile' /\ (\A d \in Drivers : HoldsText(driver[d]))' /\ DeliveredOnce'
  BY DEF AInv, Types, InsideFile, HoldsText, DeliveredOnce
<1>2. OneRun' /\ HasAnswer' /\ Begun'
  BY DEF AInv, OneRun, HasAnswer, Begun, isStreaming, Idle
<1>3. (~overlapped => Alone)'
  BY DEF AInv, Alone, Settling, Retrying, EndsOpen, EndsOnce
<1> QED
  BY <1>1, <1>2, <1>3

LEMMA ClearKeeps ==
  ASSUME AInv, clearQueue
  PROVE  AInv' /\ StatusStep
<1> DEFINE P == TextsOf(persisted)
           S == Range(steering)
           F == Range(followUp)
           N == Range(pending)
           M == steeringTexts \cup followUpTexts
<1>1. /\ steering' = <<>> /\ followUp' = <<>>
      /\ cleared' = cleared \cup M /\ steeringTexts' \cup followUpTexts' = {}
      /\ UNCHANGED <<messages, pc, pending, batch, turns, persisted, firstKept, lastAssistant,
                     retryAttempt, sleeper, pendingBash, bashRuns, driver, used, overlapped>>
  BY DEF clearQueue, clearAllQueues
<1>2. Range(<<>>) = {} /\ IsInjective(<<>>) /\ <<>> \in Seq(Texts)
  BY EmptyQueue
<1>3. /\ Types' /\ InsideFile' /\ (\A d \in Drivers : HoldsText(driver[d]))'
      /\ OneRun' /\ HasAnswer' /\ Begun' /\ DeliveredOnce' /\ (~overlapped => Alone)'
  <2>1. used' \subseteq Texts
    BY <1>1 DEF AInv, Types
  <2> QED
    BY <1>1, <1>2, <2>1, BesidesQueues
<1>4. Range(steering') = {} /\ Range(followUp') = {} /\ Range(pending') = N
      /\ TextsOf(persisted') = P
  BY <1>1, <1>2
<1>5. /\ N \cap (S \cup F) = {} /\ P \cap (S \cup F \cup N) = {} /\ IsInjective(pending)
      /\ S \cup F \cup N \cup P \cup cleared \subseteq used
      /\ M = S \cup F \cup (N \ cleared)
      /\ pc # "turn" => pending = <<>>
  BY DEF AInv, OnePlace, OnlySent, MirrorMatchesQueues
<1>6. /\ \A d \in Drivers : /\ driver[d].text \notin S \cup F \cup N \cup P \cup cleared
                            /\ driver[d].text \in used \cup {None}
      /\ \A d, e \in Drivers : driver[d].text = driver[e].text /\ driver[d].text # None => d = e
  BY DEF AInv, OnePlace, OnlySent
<1> HIDE DEF P, S, F, N, M
<1>7. OnePlace'
  BY <1>1, <1>2, <1>4, <1>5, <1>6 DEF OnePlace
<1>8. OnlySent'
  <2>1. \A d \in Drivers : driver[d].text \notin cleared \cup M
    BY <1>5, <1>6
  <2>2. N \cup P \cup (cleared \cup M) \subseteq used
    BY <1>5
  <2> QED
    BY <1>1, <1>4, <1>5, <1>6, <2>1, <2>2 DEF OnlySent
<1>9. MirrorMatchesQueues'
  <2>1. N \ (cleared \cup M) = {}
    BY <1>5
  <2> QED
    BY <1>1, <1>4, <2>1 DEF MirrorMatchesQueues
<1>10. Attended'
  BY <1>1 DEF Attended, hasQueuedMessages
<1>11. StatusStep
  <2>1. Queued = S \cup F \cup N /\ Queued' = N
    BY <1>4 DEF Queued, S, F, N
  <2>2. used \subseteq Texts /\ OnlySent /\ TextsOf(persisted) = P
    BY DEF AInv, Types, P
  <2>3. cleared \cap (S \cup F) = {}
    BY DEF AInv, OnlySent, S, F
  <2>4. Held' = Held
    BY <1>1 DEF Held
  <2>5. /\ M \in SUBSET Texts /\ M \subseteq Queued \ cleared /\ Queued \cap P = {}
        /\ Queued' \subseteq Queued /\ Queued \subseteq cleared \cup M
    BY <1>5, <2>1, <2>2, <2>3
  <2>6. TextsOf(persisted') = P
    BY <1>4
  <2> QED
    BY <1>1, <1>8, <2>2, <2>4, <2>5, <2>6, StatusReturned
<1> QED
  BY <1>3, <1>7, <1>8, <1>9, <1>10, <1>11 DEF AInv

LEMMA QueueingKeeps ==
  ASSUME AInv, NEW t \in Texts, promptWhileStreaming(t)
  PROVE  AInv' /\ StatusStep
<1> DEFINE P == TextsOf(persisted)
           S == Range(steering)
           F == Range(followUp)
           N == Range(pending)
           S2 == Range(steering')
           F2 == Range(followUp')
           M == steeringTexts \cup followUpTexts
           M2 == (steeringTexts \cup followUpTexts)'
<1>1. /\ used' = used \cup {t} /\ t \notin used /\ isStreaming
      /\ UNCHANGED <<messages, pc, pending, batch, turns, persisted, firstKept, lastAssistant,
                     retryAttempt, sleeper, pendingBash, bashRuns, driver, cleared, overlapped>>
  BY DEF promptWhileStreaming
<1>2. /\ S \cap F = {} /\ N \cap (S \cup F) = {} /\ P \cap (S \cup F \cup N) = {}
      /\ S \cup F \cup N \cup P \cup cleared \subseteq used
      /\ cleared \cap (S \cup F) = {}
      /\ M = S \cup F \cup (N \ cleared)
      /\ pc # "turn" => pending = <<>>
      /\ IsInjective(pending)
  BY DEF AInv, OnePlace, OnlySent, MirrorMatchesQueues
<1>3. /\ \A d \in Drivers : /\ driver[d].text \notin S \cup F \cup N \cup P \cup cleared
                            /\ driver[d].text \in used \cup {None}
      /\ \A d, e \in Drivers : driver[d].text = driver[e].text /\ driver[d].text # None => d = e
  BY DEF AInv, OnePlace, OnlySent
<1>4. /\ steering \in Seq(Texts) /\ followUp \in Seq(Texts) /\ IsInjective(steering)
      /\ IsInjective(followUp) /\ used \subseteq Texts
  BY DEF AInv, Types, OnePlace
<1>5. t \notin S \cup F \cup N \cup P \cup cleared /\ t # None
  BY <1>1, <1>2, NoneAssumption
<1>6. /\ steering' \in Seq(Texts) /\ followUp' \in Seq(Texts)
      /\ IsInjective(steering') /\ IsInjective(followUp')
      /\ (S2 = S \cup {t} /\ F2 = F) \/ (S2 = S /\ F2 = F \cup {t})
      /\ M2 = M \cup {t}
  <2>1. CASE /\ steer(t) /\ steeringTexts' = steeringTexts \cup {t} /\ UNCHANGED followUpTexts
    BY <1>4, <1>5, <2>1, AppendToQueue DEF steer
  <2>2. CASE /\ queueFollowUp(t) /\ followUpTexts' = followUpTexts \cup {t} /\ UNCHANGED steeringTexts
    BY <1>4, <1>5, <2>2, AppendToQueue DEF queueFollowUp
  <2> QED
    BY <2>1, <2>2 DEF promptWhileStreaming
<1>7. /\ Types' /\ InsideFile' /\ (\A d \in Drivers : HoldsText(driver[d]))'
      /\ OneRun' /\ HasAnswer' /\ Begun' /\ DeliveredOnce' /\ (~overlapped => Alone)'
  <2>1. used' \subseteq Texts
    BY <1>1, <1>4
  <2> QED
    BY <1>1, <1>6, <2>1, BesidesQueues
<1>8. Range(pending') = N /\ TextsOf(persisted') = P
  BY <1>1
<1> HIDE DEF P, S, F, N, S2, F2, M, M2
<1>9. \A d \in Drivers : driver[d].text \notin S2 \cup F2 \cup N \cup P
  BY <1>1, <1>3, <1>5, <1>6
<1>10. OnePlace'
  <2>1. S2 \cap F2 = {} /\ N \cap (S2 \cup F2) = {} /\ P \cap (S2 \cup F2 \cup N) = {}
    BY <1>2, <1>5, <1>6
  <2> QED
    BY <1>1, <1>2, <1>3, <1>6, <1>8, <1>9, <2>1 DEF OnePlace, S2, F2
<1>11. OnlySent'
  <2>1. S2 \cup F2 \cup N \cup P \cup cleared \subseteq used' /\ cleared \cap (S2 \cup F2) = {}
    BY <1>1, <1>2, <1>5, <1>6
  <2>2. \A d \in Drivers : driver[d].text \in used' \cup {None} /\ driver[d].text \notin cleared
    BY <1>1, <1>3
  <2> QED
    BY <1>1, <1>2, <1>8, <2>1, <2>2 DEF OnlySent, S2, F2
<1>12. MirrorMatchesQueues'
  <2>1. M2 = S2 \cup F2 \cup (N \ cleared)
    BY <1>2, <1>6
  <2> QED
    BY <1>1, <1>8, <2>1 DEF MirrorMatchesQueues, M2, S2, F2
<1>13. Attended'
  BY <1>1 DEF Attended, AInv, OneRun
<1>14. StatusStep
  <2>1. Queued = S \cup F \cup N /\ Queued' = S2 \cup F2 \cup N
    BY <1>8 DEF Queued, S, F, N, S2, F2
  <2>2. /\ \A v \in Texts \ {t} : v \in Queued' <=> v \in Queued
        /\ t \in Queued'
    BY <1>6, <2>1
  <2>3. Held' = Held
    BY <1>1 DEF Held
  <2>4. TextsOf(persisted') = TextsOf(persisted)
    BY <1>1
  <2>5. OnlySent
    BY DEF AInv
  <2> QED
    BY <1>1, <1>11, <2>2, <2>3, <2>4, <2>5, StatusSent
<1> QED
  BY <1>7, <1>10, <1>11, <1>12, <1>13, <1>14 DEF AInv

LEMMA PromptingKeeps ==
  ASSUME AInv, ~Settling, NEW d \in Drivers, NEW t \in Texts, promptWhileIdle(d, t)
  PROVE  AInv' /\ StatusStep
<1> DEFINE x == BashMessages(pendingBash)
           flushed == messages \o x
           d0 == [NoDriver EXCEPT !.text = t, !.then = "submit"]
           P == TextsOf(persisted)
           S == Range(steering)
           F == Range(followUp)
           N == Range(pending)
<1>1. /\ Idle /\ driver[d].phase = "off" /\ t \notin used /\ used' = used \cup {t}
      /\ overlapped' = (overlapped \/ \E e \in Drivers : driver[e].phase # "off")
      /\ persisted' = persisted \o x /\ pendingBash' = 0
      /\ UNCHANGED <<steering, followUp, pc, pending, batch, turns, firstKept, steeringTexts,
                     followUpTexts, lastAssistant, retryAttempt, sleeper, bashRuns, cleared>>
  BY DEF promptWhileIdle
<1>2. /\ messages \in Seq(Messages) /\ persisted \in Seq(Messages) /\ Len(persisted) \in Nat
      /\ driver \in [Drivers -> DriverRecords] /\ (messages # <<>> => ~IsAssistant(messages[1]))
  BY DEF AInv, Types, Begun
<1>3. /\ d0 \in DriverRecords /\ d0.text = t /\ d0.then = "submit" /\ d0.msg = None /\ d0.len = 0
  BY NoDriverRecord DEF DriverRecords
<1>4. /\ x \in Seq(Messages) /\ Plain(x) /\ flushed \in Seq(Messages)
      /\ (messages # <<>> => flushed # <<>>)
      /\ flushed # <<>> => ~IsAssistant(flushed[1])
      /\ pendingBash' \in 0..bashRuns
  BY <1>1, <1>2, Flushed
<1>5. \E r : /\ driver' = [driver EXCEPT ![d] = r] /\ r \in DriverRecords
             /\ r.phase \in {"submit", "compact"} /\ r.text = t /\ r.msg = None
             /\ r.len <= Len(persisted)
             /\ messages' \in {flushed, Stripped(flushed)}
  <2>1. PICK decision :
          \/ /\ decision = "none"
             /\ driver' = [driver EXCEPT ![d] = [d0 EXCEPT !.phase = "submit"]]
             /\ messages' = flushed
          \/ /\ decision \in {"threshold", "overflow"}
             /\ StartCompaction(d, d0, decision, flushed)
    <3> DEFINE answer == NewestAnswer(messages)
               decisions == IF answer = None THEN {"none"} ELSE checkCompaction(answer, FALSE)
    <3>1. PICK decision \in decisions :
            \/ /\ decision = "none"
               /\ driver' = [driver EXCEPT ![d] = [d0 EXCEPT !.phase = "submit"]]
               /\ messages' = flushed
            \/ /\ decision # "none"
               /\ StartCompaction(d, d0, decision, flushed)
      BY DEF promptWhileIdle
    <3>2. decision # "none" => decision \in {"threshold", "overflow"}
      <4>1. decision # "none" => decision \in checkCompaction(answer, FALSE)
        BY <3>1
      <4> QED
        BY <4>1, Decisions
    <3> QED
      BY <3>1, <3>2
  <2> HIDE DEF d0, flushed
  <2>2. CASE /\ driver' = [driver EXCEPT ![d] = [d0 EXCEPT !.phase = "submit"]]
             /\ messages' = flushed
    <3> DEFINE r == [d0 EXCEPT !.phase = "submit"]
    <3>1. r \in DriverRecords /\ r.phase = "submit" /\ r.text = t /\ r.msg = None /\ r.len = 0
      BY <1>3, DriverRecord DEF Phases
    <3>2. driver' = [driver EXCEPT ![d] = r]
      BY <2>2
    <3>3. r.len <= Len(persisted) /\ messages' \in {flushed, Stripped(flushed)}
      BY <1>2, <2>2, <3>1
    <3> HIDE DEF r
    <3> WITNESS r
    <3> QED
      BY <3>1, <3>2, <3>3
  <2>3. CASE decision \in {"threshold", "overflow"} /\ StartCompaction(d, d0, decision, flushed)
    <3> DEFINE r == Compacting(d0, decision, Len(persisted))
    <3>1. /\ r \in DriverRecords /\ r.phase = "compact" /\ r.text = t /\ r.msg = None
          /\ r.len = Len(persisted)
      <4>1. d0 \in DriverRecords /\ decision \in {"threshold", "overflow"} /\ Len(persisted) \in Nat
        BY <1>2, <1>3, <2>3
      <4>2. /\ r \in DriverRecords /\ r.phase = "compact" /\ r.text = d0.text
            /\ r.msg = d0.msg /\ r.len = Len(persisted)
        BY <4>1, CompactRecord
      <4> HIDE DEF r
      <4> QED
        BY <1>3, <4>2
    <3>2. driver' = [driver EXCEPT ![d] = r] /\ messages' \in {flushed, Stripped(flushed)}
      BY <2>3 DEF StartCompaction, Compacting
    <3>3. r.len <= Len(persisted)
      BY <1>2, <3>1
    <3> HIDE DEF r
    <3> WITNESS r
    <3> QED
      BY <3>1, <3>2, <3>3
  <2> QED
    BY <2>1, <2>2, <2>3
<1>6. PICK r : /\ driver' = [driver EXCEPT ![d] = r] /\ r \in DriverRecords
               /\ r.phase \in {"submit", "compact"} /\ r.text = t /\ r.msg = None
               /\ r.len <= Len(persisted)
               /\ messages' \in {flushed, Stripped(flushed)}
  BY <1>5
<1>7. \A e \in Drivers : driver'[e] = IF e = d THEN r ELSE driver[e]
  BY <1>2, <1>6
<1>8. TextsOf(persisted') = P
  <2>1. TextsOf(x) = {}
    BY <1>4, SideHasNoTexts DEF Plain
  <2> QED
    BY <1>1, <1>2, <1>4, <2>1, TextsOfConcat
<1>9. DeliveredOnce'
  <2>1. TextsOf(x) = {} /\ Once(x)
    BY <1>4, SideHasNoTexts, OnceSide DEF Plain
  <2>2. Once(persisted)
    BY DEF AInv, DeliveredOnce, Once
  <2>3. Once(persisted \o x)
    BY <1>2, <1>4, <2>1, <2>2, OnceConcat
  <2> QED
    BY <1>1, <2>3 DEF DeliveredOnce, Once
<1>10. /\ messages' \in Seq(Messages) /\ (messages # <<>> => messages' # <<>>)
       /\ messages' # <<>> => ~IsAssistant(messages'[1])
  BY <1>4, <1>6, StrippedOf
<1>11. /\ persisted' \in Seq(Messages) /\ Len(persisted') >= Len(persisted)
       /\ Len(persisted') \in Nat
  BY <1>1, <1>2, <1>4, Longer
<1> HIDE DEF x, flushed, d0
<1>12. Types'
  <2>1. driver' \in [Drivers -> DriverRecords] /\ used' \subseteq Texts /\ overlapped' \in BOOLEAN
    BY <1>1, <1>2, <1>6 DEF AInv, Types
  <2> QED
    BY <1>1, <1>4, <1>10, <1>11, <2>1 DEF AInv, Types
<1>13. InsideFile'
  <2>1. \A e \in Drivers : driver'[e].len <= Len(persisted) /\ driver'[e].len \in Nat
    BY <1>2, <1>6, <1>7 DEF AInv, InsideFile, DriverRecords
  <2>2. firstKept' \in 1..(Len(persisted) + 1)
    BY <1>1 DEF AInv, InsideFile
  <2> QED
    BY <1>2, <1>11, <2>1, <2>2 DEF InsideFile
<1>14. t # None /\ t \notin S \cup F \cup N \cup P \cup cleared
  BY <1>1, NoneAssumption DEF AInv, OnlySent
<1>15. (\A e \in Drivers : HoldsText(driver[e]))'
  <2>1. HoldsText(r)
    BY <1>6, <1>14 DEF HoldsText
  <2>2. \A e \in Drivers : HoldsText(driver'[e])
    BY <1>7, <2>1 DEF AInv
  <2> QED
    BY <2>2 DEF HoldsText
<1>16. /\ \A e \in Drivers : /\ driver[e].text \notin S \cup F \cup N \cup P
                             /\ driver[e].text \notin cleared
                             /\ driver[e].text \in used \cup {None}
       /\ \A e, f \in Drivers : driver[e].text = driver[f].text /\ driver[e].text # None => e = f
  BY DEF AInv, OnePlace, OnlySent
<1>17. Range(steering') = S /\ Range(followUp') = F /\ Range(pending') = N
  BY <1>1
<1>18. OnePlace'
  <2>1. \A e \in Drivers : driver'[e].text \notin S \cup F \cup N \cup P
    BY <1>6, <1>7, <1>14, <1>16
  <2>2. \A e \in Drivers : e # d => driver'[e].text # t
    BY <1>1, <1>7, <1>14, <1>16
  <2>3. \A e, f \in Drivers : driver'[e].text = driver'[f].text /\ driver'[e].text # None => e = f
    BY <1>6, <1>7, <1>16, <2>2
  <2> HIDE DEF S, F, N, P
  <2>4. /\ IsInjective(steering') /\ IsInjective(followUp') /\ IsInjective(pending')
        /\ S \cap F = {} /\ N \cap (S \cup F) = {} /\ P \cap (S \cup F \cup N) = {}
    BY <1>1 DEF AInv, OnePlace, S, F, N, P
  <2> QED
    BY <1>8, <1>17, <2>1, <2>3, <2>4 DEF OnePlace
<1>19. OnlySent'
  <2>1. \A e \in Drivers : driver'[e].text \in used' \cup {None} /\ driver'[e].text \notin cleared
    BY <1>1, <1>6, <1>7, <1>14, <1>16
  <2>2. S \cup F \cup N \cup P \cup cleared \subseteq used' /\ cleared \cap (S \cup F) = {}
        /\ (pc' # "turn" => pending' = <<>>)
    BY <1>1 DEF AInv, OnlySent
  <2> HIDE DEF S, F, N, P
  <2> QED
    BY <1>1, <1>8, <1>17, <2>1, <2>2 DEF OnlySent
<1>20. MirrorMatchesQueues'
  BY <1>1 DEF AInv, MirrorMatchesQueues
<1>21. OneRun'
  <2>1. Idle' /\ ~isStreaming'
    BY <1>1 DEF Idle, isStreaming
  <2>2. \A e \in Drivers : driver'[e].phase \notin {"running", "post"}
    BY <1>1, <1>6, <1>7 DEF AInv, OneRun, Settling, isStreaming
  <2>3. sleeper' # None => driver'[sleeper'].phase = "sleep"
    <3>1. sleeper # None => sleeper \in Drivers /\ driver[sleeper].phase = "sleep" /\ sleeper # d
      BY <1>1 DEF AInv, OneRun, Types
    <3> QED
      BY <1>1, <1>7, <3>1
  <2> QED
    BY <2>1, <2>2, <2>3 DEF OneRun
<1>22. HasAnswer'
  BY <1>1 DEF HasAnswer, Answered, Idle
<1>23. Begun'
  BY <1>6, <1>7, <1>10 DEF AInv, Begun
<1>24. Attended'
  BY <1>6, <1>7 DEF Attended
<1>25. (~overlapped => Alone)'
  <2>1. SUFFICES ASSUME ~overlapped' PROVE Alone'
    OBVIOUS
  <2>2. ~overlapped /\ \A e \in Drivers : driver[e].phase = "off"
    BY <1>1, <2>1
  <2>3. retryAttempt' = 0
    BY <1>1, <2>2 DEF AInv, Alone, Retrying
  <2>4. pc' = "idle" /\ ~Settling'
    BY <1>1, <1>6, <1>7, <2>2 DEF Idle, Settling
  <2>5. \A e, f \in Drivers : driver'[e].phase # "off" /\ driver'[f].phase # "off" => e = f
    BY <1>7, <2>2
  <2> QED
    BY <2>3, <2>4, <2>5 DEF Alone
<1>26. StatusStep
  <2>1. Queued' = Queued
    BY <1>1 DEF Queued
  <2>2. driver[d].text = None
    BY <1>1 DEF AInv, HoldsText
  <2>3. \A v \in Texts \ {t} : v \in Held' <=> v \in Held
    BY <1>6, <1>7, <2>2, NoneAssumption DEF Held
  <2>4. t \in Held'
    BY <1>6, <1>7 DEF Held
  <2>5. OnlySent /\ TextsOf(persisted') = TextsOf(persisted)
    BY <1>8 DEF AInv, P
  <2> QED
    BY <1>1, <1>19, <2>1, <2>3, <2>4, <2>5, StatusSent
<1> QED
  BY <1>9, <1>12, <1>13, <1>15, <1>18, <1>19, <1>20, <1>21, <1>22, <1>23, <1>24, <1>25, <1>26 DEF AInv

-----------------------------------------------------------------------------
(* The theorems. *)

LEMMA SessionStarts == SessionInit => AInv
<1> SUFFICES ASSUME SessionInit PROVE AInv
  OBVIOUS
<1>1. /\ messages = <<>> /\ persisted = <<>> /\ steering = <<>> /\ followUp = <<>> /\ pending = <<>>
      /\ pc = "idle" /\ batch = NoBatch /\ turns = 0 /\ firstKept = 1
      /\ steeringTexts = {} /\ followUpTexts = {} /\ lastAssistant = None
      /\ retryAttempt = 0 /\ sleeper = None /\ pendingBash = 0 /\ bashRuns = 0
      /\ driver = [d \in Drivers |-> NoDriver] /\ used = {} /\ cleared = {} /\ overlapped = FALSE
  BY DEF SessionInit, LoopInit
<1>2. \A d \in Drivers : driver[d] = NoDriver
  BY <1>1
<1>3. Types
  <2>1. driver \in [Drivers -> DriverRecords]
    BY <1>1, NoDriverRecord
  <2>2. /\ DOMAIN batch = {"mode", "calls", "started", "status"}
        /\ batch.calls \in Nat /\ batch.started \in Nat
    BY <1>1 DEF NoBatch
  <2>3. retryAttempt \in 0..MaxRetries /\ bashRuns \in 0..MaxBash /\ pendingBash \in 0..bashRuns
    BY <1>1, RetryAssumption
  <2>4. /\ messages \in Seq(Messages) /\ persisted \in Seq(Messages)
        /\ steering \in Seq(Texts) /\ followUp \in Seq(Texts) /\ pending \in Seq(Texts)
    BY <1>1, EmptySeq
  <2>5. /\ lastAssistant \in AnswerMessages \cup {None} /\ turns \in Nat /\ pc \in Places
        /\ sleeper \in Drivers \cup {None} /\ overlapped \in BOOLEAN /\ used \subseteq Texts
    BY <1>1 DEF Places
  <2> QED
    BY <2>1, <2>2, <2>3, <2>4, <2>5 DEF Types
<1>4. InsideFile
  BY <1>1, <1>2, NoDriverRecord DEF InsideFile
<1>5. \A d \in Drivers : HoldsText(driver[d])
  BY <1>2, NoDriverRecord DEF HoldsText
<1>6. TextsOf(persisted) = {}
  BY <1>1 DEF TextsOf, Range
<1>7. OnePlace /\ OnlySent
  BY <1>1, <1>2, <1>6, EmptyQueue, NoDriverRecord DEF OnePlace, OnlySent
<1>8. MirrorMatchesQueues /\ DeliveredOnce
  BY <1>1, EmptyQueue DEF MirrorMatchesQueues, DeliveredOnce
<1>9. OneRun /\ HasAnswer /\ Begun /\ Attended
  BY <1>1, <1>2, NoDriverRecord
     DEF OneRun, HasAnswer, Begun, Attended, Answered, isStreaming, Idle, hasQueuedMessages
<1>10. Alone
  BY <1>1, <1>2, NoDriverRecord DEF Alone, Settling
<1> QED
  BY <1>3, <1>4, <1>5, <1>7, <1>8, <1>9, <1>10 DEF AInv

LEMMA SessionNextKeeps ==
  ASSUME AInv, [SessionNext]_agentVars
  PROVE  AInv' /\ StatusStep
<1>1. ASSUME NEW d \in Drivers, handlePostAgentRun(d) PROVE AInv' /\ StatusStep
  BY <1>1, PostKeeps
<1>2. ASSUME ~Settling, NEW d \in Drivers, DriverStep(d) PROVE AInv' /\ StatusStep
  BY <1>2, SubmitKeeps, ResumeKeeps, DelayEndsKeeps, CompactionFailsKeeps,
     CompactionSucceedsKeeps DEF DriverStep
<1>3. CASE LoopStep
  BY <1>3, LoopKeeps
<1>4. CASE RunSettles
  BY <1>4, RunSettlesKeeps
<1>5. ASSUME ~Settling, UserStep PROVE AInv' /\ StatusStep
  <2>1. CASE abortRun
    BY <2>1, NothingKeeps DEF abortRun, sessionVars
  <2> QED
    BY <1>5, <2>1, PromptingKeeps, QueueingKeeps, AbortRetryKeeps, ClearKeeps, BashKeeps DEF UserStep
<1>6. CASE UNCHANGED agentVars
  BY <1>6, NothingKeeps DEF agentVars, loopVars, sessionVars
<1> QED
  BY <1>1, <1>2, <1>3, <1>4, <1>5, <1>6 DEF SessionNext

(* The inductive invariant of the session: the texts, the drivers and the      *)
(* counter of retries, under every interleaving of calls of prompt(), the loop, *)
(* retries, compactions, shell commands and aborts.                             *)
THEOREM AgentInductive == AgentSpec => []AInv
BY SessionStarts, SessionNextKeeps, PTL DEF AgentSpec

(* The session implements the safety part of MessageDelivery: each of its steps  *)
(* sends, delivers, gives back or refuses texts as the abstract specification     *)
(* allows, or leaves every text where it is.  A text is never delivered twice,    *)
(* and never refused once it was queued.                                          *)
THEOREM AgentDelivers == AgentSpec => Delivery!Safety
<1>1. SessionInit => Delivery!Init
  <2>1. ASSUME SessionInit PROVE DeliveryStatus = [t \in Texts |-> "new"]
    <3>1. used = {} /\ AInv
      BY <2>1, SessionStarts DEF SessionInit
    <3>2. TextsOf(persisted) \cup cleared \cup Queued \subseteq used
      BY <3>1 DEF AInv, OnlySent, Queued
    <3>3. \A t \in Texts : Where(t, used, TextsOf(persisted), cleared, Queued, Held) = "new"
      BY <3>1, <3>2, WhereIs
    <3> QED
      BY <3>3, StatusIsWhere
  <2> QED
    BY <2>1 DEF Delivery!Init
<1>2. AInv /\ [SessionNext]_agentVars => [Delivery!Next]_DeliveryStatus
  BY SessionNextKeeps DEF StatusStep
<1> QED
  BY <1>1, <1>2, AgentInductive, PTL DEF AgentSpec, Delivery!Safety

(* TypeOK of AgentSession: the retry counter never exceeds maxRetries, and the *)
(* kept part of the session file starts inside it.                              *)
THEOREM AgentTypeCorrect == AgentSpec => []TypeOK
<1>1. AInv => TypeOK
  <2>1. SUFFICES ASSUME AInv PROVE TypeOK
    OBVIOUS
  <2>2. steeringTexts \cup followUpTexts \subseteq Texts
    <3>1. Range(steering) \cup Range(followUp) \cup Range(pending) \subseteq Texts
      BY <2>1 DEF AInv, Types, Range
    <3> QED
      BY <2>1, <3>1 DEF AInv, MirrorMatchesQueues
  <2>3. pendingBash \in 0..MaxBash
    BY <2>1, RetryAssumption DEF AInv, Types
  <2> QED
    BY <2>1, <2>2, <2>3 DEF AInv, Types, InsideFile, TypeOK, Places
<1> QED
  BY <1>1, AgentInductive, PTL

(* No text is stored twice: whatever _prepareRetry, compaction and continue()   *)
(* repeat, a user's message reaches the session file once.                      *)
THEOREM TextsDeliveredOnce == AgentSpec => []DeliveredOnce
<1>1. AInv => DeliveredOnce
  BY DEF AInv
<1> QED
  BY <1>1, AgentInductive, PTL

(* The texts the session shows and gives back to the editor are the ones the    *)
(* agent still holds, between any two steps of the loop and of the listener.    *)
THEOREM MirrorIsTrue == AgentSpec => []MirrorMatchesQueues
<1>1. AInv => MirrorMatchesQueues
  BY DEF AInv
<1> QED
  BY <1>1, AgentInductive, PTL

(* No queued message is left when everything has come to rest: a driver that    *)
(* ends has looked at the queues, or leaves them to a run that is active.       *)
THEOREM NothingStranded == AgentSpec => []QueuedNotStranded
<1>1. AInv => QueuedNotStranded
  BY DEF AInv, Attended, QueuedNotStranded, Quiet
<1> QED
  BY <1>1, AgentInductive, PTL

(* As long as calls of prompt() do not overlap, every way out of a retry leaves *)
(* _retryAttempt at zero.                                                       *)
THEOREM RetriesSettle == AgentSpec => []RetryCounterSettles
<1>1. AInv => RetryCounterSettles
  BY DEF AInv, Alone, Retrying, RetryCounterSettles, Quiet
<1> QED
  BY <1>1, AgentInductive, PTL
-----------------------------------------------------------------------------
(* Without, by induction over the positions of the sequence. *)

IsWithoutFn(q, S, f) ==
  f = [i \in 0..Len(q) |-> IF i = 0 THEN <<>>
                           ELSE IF q[i] \in S THEN f[i - 1]
                           ELSE Append(f[i - 1], q[i])]
WithoutFn(q, S) == CHOOSE f : IsWithoutFn(q, S, f)

WithoutStep(q, S, f, i) ==
  /\ q[i] \in S => f[i] = f[i - 1]
  /\ q[i] \notin S => f[i] = Append(f[i - 1], q[i])

(* The recursive function of Without, and that it satisfies its equation. *)
LEMMA WithoutFnIs ==
  ASSUME NEW X, NEW q \in Seq(X), NEW S
  PROVE  /\ \A i \in 0..Len(q) : WithoutFn(q, S)[i] \in Seq(X)
         /\ WithoutFn(q, S)[0] = <<>>
         /\ \A i \in 1..Len(q) : WithoutStep(q, S, WithoutFn(q, S), i)
         /\ Without(q, S) = WithoutFn(q, S)[Len(q)]
         /\ Without(q, S) \in Seq(X)
<1> DEFINE N == Len(q)
           prev == [i \in 1..N |-> i - 1]
           step == [x \in Seq(X) \X (1..N) |->
                      IF q[x[2]] \in S THEN x[1] ELSE Append(x[1], q[x[2]])]
<1>1. N \in Nat /\ \A i \in 1..N : q[i] \in X
  BY LenProperties
<1>2. prev \in [1..N -> Nat] /\ \A i \in 1..N : prev[i] < i /\ prev[i] = i - 1
  BY <1>1
<1>3. /\ step \in [Seq(X) \X (1..N) -> Seq(X)]
      /\ \A s \in Seq(X), i \in 1..N :
           step[<<s, i>>] = IF q[i] \in S THEN s ELSE Append(s, q[i])
  BY <1>1
<1>4. <<>> \in Seq(X)
  BY EmptySeq
<1> HIDE DEF prev, step, N
<1>5. PICK f \in [0..N -> Seq(X)] :
        f[0] = <<>> /\ \A i \in 1..N : f[i] = step[<<f[prev[i]], i>>]
  <2>1. Recursion(N, Seq(X), <<>>, prev, step)
    BY <1>1, <1>2, <1>3, <1>4 DEF Recursion
  <2>2. \E f : Solves(f, N, Seq(X), <<>>, prev, step)
    BY <2>1, RecursionExists
  <2> QED
    BY <2>2 DEF Solves
<1>6. ASSUME NEW i \in 1..N
      PROVE  f[i] = IF q[i] \in S THEN f[i - 1] ELSE Append(f[i - 1], q[i])
  <2>1. prev[i] = i - 1 /\ i - 1 \in 0..N
    BY <1>1, <1>2
  <2>2. f[i - 1] \in Seq(X)
    BY <1>5, <2>1
  <2>3. step[<<f[i - 1], i>>] = IF q[i] \in S THEN f[i - 1] ELSE Append(f[i - 1], q[i])
    BY <1>3, <2>2
  <2>4. f[i] = step[<<f[i - 1], i>>]
    BY <1>5, <2>1
  <2> QED
    BY <2>3, <2>4
<1>7. IsWithoutFn(q, S, f)
  <2>1. f = [i \in 0..N |-> f[i]]
    BY <1>5
  <2>2. ASSUME NEW i \in 0..N
        PROVE  f[i] = IF i = 0 THEN <<>> ELSE IF q[i] \in S THEN f[i - 1]
                      ELSE Append(f[i - 1], q[i])
    <3>1. i # 0 => i \in 1..N
      BY <1>1
    <3> QED
      BY <1>5, <1>6, <3>1
  <2> QED
    BY <2>1, <2>2, Zenon DEF IsWithoutFn, N
<1> DEFINE W == WithoutFn(q, S)
<1>8. IsWithoutFn(q, S, W)
  <2>1. \E g : IsWithoutFn(q, S, g)
    BY <1>7
  <2> QED
    BY <2>1, Zenon DEF WithoutFn
<1>9. Without(q, S) = W[N]
  BY Zenon DEF Without, WithoutFn, IsWithoutFn, N
<1> HIDE DEF W
<1>10. W[0] = <<>> /\ \A i \in 1..N : WithoutStep(q, S, W, i)
  <2>1. ASSUME NEW i \in 0..N
        PROVE  W[i] = IF i = 0 THEN <<>> ELSE IF q[i] \in S THEN W[i - 1]
                      ELSE Append(W[i - 1], q[i])
    BY <1>8 DEF IsWithoutFn, N
  <2>2. 0 \in 0..N /\ \A i \in 1..N : i \in 0..N /\ i # 0
    BY <1>1
  <2>3. W[0] = <<>>
    BY <2>1, <2>2
  <2>4. ASSUME NEW i \in 1..N PROVE WithoutStep(q, S, W, i)
    <3>1. W[i] = IF q[i] \in S THEN W[i - 1] ELSE Append(W[i - 1], q[i])
      BY <2>1, <2>2
    <3> QED
      BY <3>1 DEF WithoutStep
  <2> QED
    BY <2>3, <2>4
<1>11. \A i \in 0..N : W[i] \in Seq(X)
  <2> DEFINE T == {i \in Nat : i <= N => W[i] \in Seq(X)}
  <2>1. 0 \in T
    BY <1>4, <1>10
  <2>2. ASSUME NEW n \in Nat, n \in T PROVE n + 1 \in T
    <3> SUFFICES ASSUME n + 1 <= N PROVE W[n + 1] \in Seq(X)
      OBVIOUS
    <3>1. n + 1 \in 1..N /\ (n + 1) - 1 = n
      BY <1>1
    <3>2. W[n] \in Seq(X) /\ q[n + 1] \in X
      BY <1>1, <2>2, <3>1
    <3>3. WithoutStep(q, S, W, n + 1)
      BY <1>10, <3>1
    <3>4. W[n + 1] = W[n] \/ W[n + 1] = Append(W[n], q[n + 1])
      BY <3>1, <3>3 DEF WithoutStep
    <3>5. Append(W[n], q[n + 1]) \in Seq(X)
      BY <3>2, AppendProperties
    <3> QED
      BY <3>2, <3>4, <3>5
  <2>3. Nat \subseteq T
    <3> HIDE DEF T
    <3> QED
      BY <2>1, <2>2, SetInduction
  <2> QED
    BY <1>1, <2>3
<1>12. N \in 0..N
  BY <1>1
<1> QED
  BY <1>9, <1>10, <1>11, <1>12 DEF W, N

(* What is left of a sequence does not depend on what follows. *)
LEMMA WithoutPrefix ==
  ASSUME NEW X, NEW p \in Seq(X), NEW q \in Seq(X), NEW S,
         Len(p) <= Len(q), \A i \in 1..Len(p) : q[i] = p[i]
  PROVE  WithoutFn(q, S)[Len(p)] = Without(p, S)
<1> DEFINE N == Len(p)
           P == WithoutFn(p, S)
           Q == WithoutFn(q, S)
           T == {i \in Nat : i <= N => Q[i] = P[i]}
<1>1. N \in Nat /\ Len(q) \in Nat
  BY LenProperties
<1>2. /\ P[0] = <<>> /\ Q[0] = <<>> /\ Without(p, S) = P[N]
      /\ \A i \in 1..N : WithoutStep(p, S, P, i)
      /\ \A i \in 1..Len(q) : WithoutStep(q, S, Q, i)
  BY WithoutFnIs
<1> HIDE DEF P, Q
<1>3. 0 \in T
  BY <1>2
<1>4. ASSUME NEW n \in Nat, n \in T PROVE n + 1 \in T
  <2> SUFFICES ASSUME n + 1 <= N PROVE Q[n + 1] = P[n + 1]
    OBVIOUS
  <2>1. /\ n + 1 \in 1..N /\ n + 1 \in 1..Len(q) /\ (n + 1) - 1 = n
        /\ q[n + 1] = p[n + 1] /\ Q[n] = P[n]
    BY <1>1, <1>4
  <2>2. WithoutStep(p, S, P, n + 1) /\ WithoutStep(q, S, Q, n + 1)
    BY <1>2, <2>1
  <2> QED
    BY <2>1, <2>2 DEF WithoutStep
<1>5. Nat \subseteq T
  <2> HIDE DEF T
  <2> QED
    BY <1>3, <1>4, SetInduction
<1>6. Q[N] = P[N]
  BY <1>1, <1>5
<1> QED
  BY <1>2, <1>6 DEF Q, N

Joins(c, p, x) == c = p \o x

(* Without takes its elements out of each part of a sequence by itself. *)
LEMMA WithoutConcat ==
  ASSUME NEW X, NEW p \in Seq(X), NEW x \in Seq(X), NEW S, NEW r, Joins(r, p, x)
  PROVE  Joins(Without(r, S), Without(p, S), Without(x, S))
<1> DEFINE n == Len(p)
           k == Len(x)
           c == p \o x
           P == Without(p, S)
           C == WithoutFn(c, S)
           F == WithoutFn(x, S)
           T == {i \in Nat : i <= k => C[n + i] = P \o F[i]}
<1>1. /\ c \in Seq(X) /\ Len(c) = n + k /\ n \in Nat /\ k \in Nat
      /\ \A i \in 1..(n + k) : c[i] = IF i <= n THEN p[i] ELSE x[i - n]
  BY ConcatProperties, LenProperties
<1>2. /\ P \in Seq(X) /\ Without(x, S) \in Seq(X) /\ Without(x, S) = F[k] /\ F[0] = <<>>
      /\ \A i \in 0..k : F[i] \in Seq(X)
      /\ \A i \in 1..k : WithoutStep(x, S, F, i)
  BY WithoutFnIs
<1>3. \A i \in 1..Len(c) : WithoutStep(c, S, C, i)
  BY <1>1, WithoutFnIs
<1>4. Without(c, S) = C[Len(c)]
  BY <1>1, WithoutFnIs
<1>5. C[n] = P
  <2>1. Len(p) <= Len(c) /\ \A i \in 1..Len(p) : c[i] = p[i]
    BY <1>1
  <2> QED
    BY <1>1, <2>1, WithoutPrefix
<1> HIDE DEF C, F, c, P, n, k
<1>6. 0 \in T
  <2>1. P \o <<>> = P
    BY <1>2, ConcatEmptySeq
  <2>2. n + 0 = n
    BY <1>1
  <2>3. C[n + 0] = P \o F[0]
    BY <1>2, <1>5, <2>1, <2>2, Zenon
  <2> QED
    BY <2>3
<1>7. ASSUME NEW i \in Nat, i \in T PROVE i + 1 \in T
  <2> SUFFICES ASSUME i + 1 <= k PROVE C[n + (i + 1)] = P \o F[i + 1]
    OBVIOUS
  <2>1. /\ n + (i + 1) \in 1..Len(c) /\ (n + (i + 1)) - 1 = n + i
        /\ i + 1 \in 1..k /\ (i + 1) - 1 = i /\ i \in 0..k
        /\ c[n + (i + 1)] = x[i + 1]
    <3>1. /\ n + (i + 1) \in 1..(n + k) /\ (n + (i + 1)) - 1 = n + i
          /\ i + 1 \in 1..k /\ (i + 1) - 1 = i /\ i \in 0..k
          /\ ~(n + (i + 1) <= n) /\ (n + (i + 1)) - n = i + 1
      BY <1>1
    <3>2. c[n + (i + 1)] = x[(n + (i + 1)) - n]
      BY <1>1, <3>1
    <3> QED
      BY <1>1, <3>1, <3>2
  <2>2. C[n + i] = P \o F[i]
    BY <1>1, <1>7
  <2>3. WithoutStep(c, S, C, n + (i + 1)) /\ WithoutStep(x, S, F, i + 1)
    BY <1>2, <1>3, <2>1
  <2>4. F[i] \in Seq(X) /\ x[i + 1] \in X
    BY <1>2, <2>1 DEF k
  <2>5. P \o Append(F[i], x[i + 1]) = Append(P \o F[i], x[i + 1])
    <3>1. \A u, v \in Seq(X), y \in X : u \o Append(v, y) = Append(u \o v, y)
      OBVIOUS
    <3> QED
      BY <1>2, <2>4, <3>1
  <2> QED
    BY <2>1, <2>2, <2>3, <2>5 DEF WithoutStep
<1>8. Nat \subseteq T
  <2> HIDE DEF T
  <2> QED
    BY <1>6, <1>7, SetInduction
<1>9. C[n + k] = P \o F[k]
  BY <1>1, <1>8
<1>10. Without(c, S) = P \o Without(x, S)
  BY <1>1, <1>2, <1>4, <1>9
<1> QED
  BY <1>10 DEF c, P, Joins

LEMMA WithoutOne ==
  ASSUME NEW X, NEW m \in X, NEW S
  PROVE  Without(<<m>>, S) = IF m \in S THEN <<>> ELSE <<m>>
<1> DEFINE q == <<m>>
<1>1. q \in Seq(X) /\ Len(q) = 1 /\ q[1] = m /\ 1 \in 1..Len(q) /\ Append(<<>>, m) = q
  OBVIOUS
<1> HIDE DEF q
<1>2. Without(q, S) = WithoutFn(q, S)[1] /\ WithoutFn(q, S)[0] = <<>> /\ WithoutStep(q, S, WithoutFn(q, S), 1)
  BY <1>1, WithoutFnIs
<1>3. Without(q, S) = IF m \in S THEN <<>> ELSE q
  BY <1>1, <1>2 DEF WithoutStep
<1> QED
  BY <1>3 DEF q
-----------------------------------------------------------------------------
(* What the session file gives when it is opened again. *)

SourceAt(p, l, k) == IF l = 0 THEN p ELSE <<Summary>> \o SubSeq(p, k, Len(p))

Agrees == Kept(messages) = Kept(SourceAt(persisted, compactedLen, firstKept))

(* A transcript that ends in an answer, and one whose last answer is dropped. *)
EndsInAnswer(p) == p # <<>> /\ IsAssistant(p[Len(p)])

Rests(p) == EndsInAnswer(p) => p[Len(p)] \in Dropped

(* Two answers follow each other in the session file only if the first was      *)
(* dropped for the second.                                                       *)
FileTurns ==
  /\ pc \in {"poll", "request"} => Rests(persisted)
  /\ pc = "turn" /\ pending = <<>> => Rests(persisted)
  /\ pc \in {"results", "turnEnd"} /\ batch.started > 0 => Rests(persisted)
  /\ \A i \in 1..(Len(persisted) - 1) :
       IsAssistant(persisted[i]) /\ IsAssistant(persisted[i + 1]) => persisted[i] \in Dropped

(* _lastAssistantMessage is the last answer of the run, or was dropped.          *)
Tracked ==
  /\ Idle /\ ~Settling => lastAssistant = None
  /\ lastAssistant # None /\ EndsInAnswer(persisted) => persisted[Len(persisted)] = lastAssistant
  /\ lastAssistant # None /\ EndsInAnswer(messages)
       => messages[Len(messages)] \in Dropped \cup {lastAssistant}

Cut == compactedLen \in Nat /\ (compactedLen # 0 => firstKept \in 1..Len(persisted))

Sleeps == \A d \in Drivers : driver[d].phase = "sleep" => driver[d].msg.stop = "retryable"

ResInv == Agrees /\ FileTurns /\ Tracked /\ Cut /\ Sleeps

-----------------------------------------------------------------------------
(* A transcript is what precedes its last message, and that message. *)
LEMMA LastApart ==
  ASSUME NEW ms \in Seq(Messages), ms # <<>>
  PROVE  /\ Front(ms) \in Seq(Messages) /\ Len(ms) \in Nat \ {0}
         /\ Len(Front(ms)) = Len(ms) - 1
         /\ \A i \in 1..(Len(ms) - 1) : Front(ms)[i] = ms[i]
         /\ ms[Len(ms)] \in Messages /\ Last(ms) = ms[Len(ms)]
         /\ ms = Front(ms) \o <<ms[Len(ms)]>>
<1> DEFINE n == Len(ms)
           f == Front(ms)
           m == ms[n]
<1>1. n \in Nat \ {0}
  BY EmptySeq
<1>2. /\ f \in Seq(Messages) /\ Len(f) = n - 1
      /\ \A i \in 1..(n - 1) : f[i] = ms[i]
  <2> DEFINE k == n - 1
  <2>1. f = SubSeq(ms, 1, k) /\ k \in Nat /\ k <= n
    BY <1>1 DEF Front
  <2> HIDE DEF f, k
  <2>2. f \in Seq(Messages) /\ Len(f) = k /\ \A i \in 1..k : f[i] = ms[i]
    BY <2>1
  <2> QED
    BY <2>2 DEF k
<1>3. m \in Messages /\ Last(ms) = m
  BY <1>1 DEF Last
<1> HIDE DEF f, m, n
<1>4. /\ f \o <<m>> \in Seq(Messages) /\ Len(f \o <<m>>) = n
      /\ \A i \in 1..n : (f \o <<m>>)[i] = IF i <= n - 1 THEN f[i] ELSE m
  <2>1. <<m>> \in Seq(Messages) /\ Len(<<m>>) = 1 /\ <<m>>[1] = m
    BY <1>3
  <2>2. \A i \in 1..n : i <= n - 1 \/ i - (n - 1) = 1
    BY <1>1
  <2> QED
    BY <1>1, <1>2, <2>1, <2>2, ConcatProperties
<1>5. ms = f \o <<m>>
  <2>1. Len(ms) = n /\ \A i \in 1..n : ms[i] = (f \o <<m>>)[i]
    <3>1. \A i \in 1..n : i <= n - 1 \/ i = n
      BY <1>1
    <3> QED
      BY <1>2, <1>4, <3>1 DEF m, n
  <2> DEFINE g == f \o <<m>>
  <2>2. g \in Seq(Messages) /\ Len(g) = n /\ \A i \in 1..n : ms[i] = g[i]
    BY <1>4, <2>1
  <2> HIDE DEF g
  <2>3. ms = g
    BY <2>1, <2>2
  <2> QED
    BY <2>3 DEF g
<1> QED
  BY <1>1, <1>2, <1>3, <1>5 DEF f, m, n

LEMMA KeptConcat ==
  ASSUME NEW p \in Seq(Messages), NEW x \in Seq(Messages)
  PROVE  /\ Kept(p) \in Seq(Messages) /\ Kept(x) \in Seq(Messages)
         /\ Kept(p \o x) = Kept(p) \o Kept(x)
<1>1. Joins(p \o x, p, x)
  BY DEF Joins
<1>2. Joins(Kept(p \o x), Kept(p), Kept(x))
  BY <1>1, WithoutConcat DEF Kept
<1>3. Kept(p) \in Seq(Messages) /\ Kept(x) \in Seq(Messages)
  BY WithoutFnIs DEF Kept
<1> QED
  BY <1>2, <1>3 DEF Joins

(* The last message is the last one kept, unless it is dropped. *)
LEMMA KeptLast ==
  ASSUME NEW ms \in Seq(Messages), ms # <<>>
  PROVE  /\ ms[Len(ms)] \in Dropped => Kept(ms) = Kept(Front(ms))
         /\ ms[Len(ms)] \notin Dropped => /\ Kept(ms) # <<>>
                                          /\ Kept(ms)[Len(Kept(ms))] = ms[Len(ms)]
<1> DEFINE m == ms[Len(ms)]
           f == Front(ms)
<1>1. f \in Seq(Messages) /\ m \in Messages /\ ms = f \o <<m>> /\ <<m>> \in Seq(Messages)
  BY LastApart
<1> HIDE DEF m, f
<1>2. Kept(f) \in Seq(Messages) /\ Kept(ms) = Kept(f) \o Kept(<<m>>)
  BY <1>1, KeptConcat
<1>3. Kept(<<m>>) = IF m \in Dropped THEN <<>> ELSE <<m>>
  BY <1>1, WithoutOne DEF Kept
<1>4. m \in Dropped => Kept(ms) = Kept(f)
  BY <1>2, <1>3, ConcatEmptySeq
<1>5. ASSUME m \notin Dropped PROVE Kept(ms) # <<>> /\ Kept(ms)[Len(Kept(ms))] = m
  <2> DEFINE a == <<m>>
             K == Kept(f)
  <2>1. Len(a) = 1 /\ a[1] = m /\ a # <<>> /\ a \in Seq(Messages)
    BY <1>1
  <2>2. Kept(ms) = K \o a /\ K \in Seq(Messages)
    BY <1>2, <1>3, <1>5
  <2> HIDE DEF a, K
  <2>3. K \o a # <<>> /\ (K \o a)[Len(K \o a)] = a[Len(a)]
    BY <2>1, <2>2, Longer
  <2> QED
    BY <2>1, <2>2, <2>3
<1> QED
  BY <1>4, <1>5 DEF m, f

LEMMA KeptStripped ==
  ASSUME NEW ms \in Seq(Messages), Rests(ms)
  PROVE  Stripped(ms) \in Seq(Messages) /\ Kept(Stripped(ms)) = Kept(ms)
<1>1. CASE EndsInAnswer(ms)
  <2>1. Stripped(ms) = Front(ms) /\ ms[Len(ms)] \in Dropped /\ ms # <<>>
    BY <1>1, LastApart DEF Stripped, EndsInAnswer, Rests
  <2> QED
    BY <2>1, LastApart, KeptLast
<1>2. CASE ~EndsInAnswer(ms)
  <2>1. Stripped(ms) = ms
    BY <1>2, LastApart DEF Stripped, EndsInAnswer
  <2> QED
    BY <2>1
<1> QED
  BY <1>1, <1>2

(* The summary, then the messages of p from the k-th on. *)
Cuts(s, p, k) ==
  /\ Len(s) = Len(p) - k + 2 /\ s[1] = Summary
  /\ \A i \in k..Len(p) : s[i - k + 2] = p[i]

(* What the session file gives grows with it. *)
LEMMA SourceGrows ==
  \A p \in Seq(Messages) : \A x \in Seq(Messages) : \A l \in Nat : \A k \in 1..Len(p) :
    /\ SourceAt(p, l, k) \in Seq(Messages)
    /\ SourceAt(p \o x, l, k) = SourceAt(p, l, k) \o x
    /\ l # 0 => Cuts(SourceAt(p, l, k), p, k)
<1> TAKE p \in Seq(Messages)
<1> TAKE x \in Seq(Messages)
<1> TAKE l \in Nat
<1> TAKE k \in 1..Len(p)
<1>1. CASE l = 0
  BY <1>1, Longer DEF SourceAt
<1>2. CASE l # 0
  <2> DEFINE n == Len(p)
             h == Len(x)
             c == p \o x
             s == SubSeq(p, k, n)
             t == SubSeq(c, k, n + h)
             w == n - k + 1
  <2>1. /\ c \in Seq(Messages) /\ Len(c) = n + h /\ n \in Nat /\ h \in Nat /\ k \in 1..n
        /\ \A i \in 1..(n + h) : c[i] = IF i <= n THEN p[i] ELSE x[i - n]
    BY <1>2, ConcatProperties, LenProperties
  <2>2. SourceAt(p, l, k) = <<Summary>> \o s /\ SourceAt(c, l, k) = <<Summary>> \o t
    BY <1>2, <2>1 DEF SourceAt
  <2> HIDE DEF c, n, h
  <2>3. w \in Nat \ {0} /\ n + h - k + 1 = w + h
    BY <2>1
  <2>4. s = [i \in 1..w |-> p[i + k - 1]] /\ t = [i \in 1..(w + h) |-> c[i + k - 1]]
    <3>1. s = [i \in 1..(n - k + 1) |-> p[i + k - 1]]
      BY <2>1
    <3>2. t = [i \in 1..(n + h - k + 1) |-> c[i + k - 1]]
      BY <2>1
    <3> QED
      BY <2>3, <3>1, <3>2
  <2>5. \A i \in 1..w : i + k - 1 \in 1..n
    BY <2>1
  <2>6. \A i \in 1..(w + h) : i + k - 1 \in 1..(n + h)
    BY <2>1
  <2> HIDE DEF s, t, w
  <2>7. \A i \in 1..n : p[i] \in Messages
    BY DEF n
  <2>8. s \in Seq(Messages) /\ Len(s) = w /\ \A i \in 1..w : s[i] = p[i + k - 1]
    <3>1. \A i \in 1..w : p[i + k - 1] \in Messages
      BY <2>5, <2>7
    <3> QED
      BY <2>3, <2>4, <3>1
  <2>9. t \in Seq(Messages) /\ Len(t) = w + h /\ \A i \in 1..(w + h) : t[i] = c[i + k - 1]
    <3>1. \A i \in 1..(w + h) : c[i + k - 1] \in Messages
      BY <2>1, <2>6
    <3>2. w + h \in Nat
      BY <2>1, <2>3
    <3> DEFINE u == w + h
    <3> HIDE DEF u
    <3>3. u \in Nat /\ t = [i \in 1..u |-> c[i + k - 1]] /\ \A i \in 1..u : c[i + k - 1] \in Messages
      BY <2>4, <3>1, <3>2 DEF u
    <3>4. t \in Seq(Messages) /\ Len(t) = u /\ \A i \in 1..u : t[i] = c[i + k - 1]
      BY <3>3
    <3> QED
      BY <3>4 DEF u
  <2>10. t = s \o x
    <3> DEFINE g == s \o x
    <3>1. /\ g \in Seq(Messages) /\ Len(g) = w + h
          /\ \A i \in 1..(w + h) : g[i] = IF i <= w THEN s[i] ELSE x[i - w]
      BY <2>1, <2>3, <2>8, ConcatProperties DEF h
    <3>2. ASSUME NEW i \in 1..(w + h) PROVE t[i] = g[i]
      <4>1. CASE i <= w
        <5>1. i \in 1..w /\ i + k - 1 \in 1..n /\ i + k - 1 \in 1..(n + h) /\ i + k - 1 <= n
          BY <2>1, <2>5, <4>1
        <5> QED
          BY <2>1, <2>8, <2>9, <3>1, <4>1, <5>1
      <4>2. CASE ~(i <= w)
        <5>1. i + k - 1 \in 1..(n + h) /\ ~(i + k - 1 <= n) /\ (i + k - 1) - n = i - w
          BY <2>1, <2>6, <4>2 DEF w
        <5> QED
          BY <2>1, <2>9, <3>1, <4>2, <5>1
      <4> QED
        BY <4>1, <4>2
    <3> HIDE DEF g
    <3>3. t = g
      BY <2>9, <3>1, <3>2
    <3> QED
      BY <3>3 DEF g
  <2> DEFINE a == <<Summary>>
  <2>11. a \in Seq(Messages) /\ Len(a) = 1 /\ a[1] = Summary
    BY DEF Messages
  <2> HIDE DEF a
  <2>12. SourceAt(p, l, k) = a \o s /\ SourceAt(c, l, k) = (a \o s) \o x
    <3>1. a \o (s \o x) = (a \o s) \o x
      <4>1. a \in Seq(Messages) /\ s \in Seq(Messages) /\ x \in Seq(Messages)
        BY <2>8, <2>11
      <4> HIDE DEF s
      <4> QED
        BY <4>1, Reassociated, Zenon
    <3> QED
      BY <2>2, <2>10, <3>1 DEF a
  <2>13. /\ a \o s \in Seq(Messages) /\ Len(a \o s) = 1 + w
         /\ \A i \in 1..(1 + w) : (a \o s)[i] = IF i <= 1 THEN a[i] ELSE s[i - 1]
    <3>1. /\ a \o s \in Seq(Messages) /\ Len(a \o s) = Len(a) + Len(s)
          /\ \A i \in 1..(Len(a) + Len(s)) :
               (a \o s)[i] = IF i <= Len(a) THEN a[i] ELSE s[i - Len(a)]
      BY <2>8, <2>11, ConcatProperties
    <3>2. Len(a) = 1 /\ Len(s) = w
      BY <2>8, <2>11
    <3> DEFINE b == a \o s
    <3> HIDE DEF b, s, w
    <3>3. /\ b \in Seq(Messages) /\ Len(b) = 1 + w
          /\ \A i \in 1..(1 + w) : b[i] = IF i <= 1 THEN a[i] ELSE s[i - 1]
      BY <3>1, <3>2 DEF b
    <3> QED
      BY <3>3 DEF b
  <2>14. Len(a \o s) = n - k + 2 /\ (a \o s)[1] = Summary
    <3> DEFINE b == a \o s
    <3>1. Len(b) = 1 + w /\ \A i \in 1..(1 + w) : b[i] = IF i <= 1 THEN a[i] ELSE s[i - 1]
      BY <2>13
    <3>2. 1 \in 1..(1 + w) /\ 1 + w = n - k + 2
      BY <2>1, <2>3 DEF w
    <3>3. a[1] = Summary
      BY <2>11
    <3> HIDE DEF a, b, s, w
    <3>4. Len(b) = n - k + 2 /\ b[1] = Summary
      BY <3>1, <3>2, <3>3
    <3> QED
      BY <3>4 DEF b
  <2>15. ASSUME NEW i \in k..n PROVE (a \o s)[i - k + 2] = p[i]
    <3>1. i - k + 2 \in 1..(1 + w) /\ ~(i - k + 2 <= 1) /\ (i - k + 2) - 1 \in 1..w
          /\ ((i - k + 2) - 1) + k - 1 = i
      BY <2>1 DEF w
    <3> QED
      BY <2>8, <2>13, <3>1
  <2>16. Cuts(a \o s, p, k)
    BY <2>14, <2>15 DEF Cuts, n
  <2> QED
    BY <2>12, <2>13, <2>16 DEF c
<1> QED
  BY <1>1, <1>2

(* Messages without an answer. *)
NoAnswers(x) == \A i \in 1..Len(x) : x[i] \notin AnswerMessages

LEMMA NoAnswersAre ==
  /\ \A x : Plain(x) => NoAnswers(x)
  /\ \A n \in Nat : NoAnswers(BashMessages(n))
  /\ \A ts \in Seq(Texts) : NoAnswers(AsUsers(ts))
<1>1. \A x : Plain(x) => NoAnswers(x)
  BY DEF Plain, NoAnswers
<1>2. ASSUME NEW ts \in Seq(Texts) PROVE NoAnswers(AsUsers(ts))
  BY UsersOf, RolesOf DEF NoAnswers
<1> QED
  BY <1>1, <1>2, PlainMessages

LEMMA AnswerIs ==
  ASSUME NEW p \in Seq(Messages), EndsInAnswer(p)
  PROVE  p[Len(p)] \in AnswerMessages /\ Len(p) \in Nat \ {0} /\ p # <<>>
<1>1. p # <<>> /\ Len(p) \in Nat \ {0}
  BY EmptySeq DEF EndsInAnswer
<1>2. p[Len(p)] \in Messages
  BY <1>1
<1> QED
  BY <1>1, <1>2, AnswerRole DEF EndsInAnswer

(* How a transcript ends that grows by x. *)
LEMMA GrownEnd ==
  ASSUME NEW p \in Seq(Messages), NEW x \in Seq(Messages), NoAnswers(x)
  PROVE  /\ p \o x \in Seq(Messages)
         /\ EndsInAnswer(p \o x) => x = <<>> /\ p \o x = p
         /\ x # <<>> => ~EndsInAnswer(p \o x)
<1>1. ASSUME x # <<>> PROVE ~EndsInAnswer(p \o x)
  <2>1. EndsOpen(p \o x)
    BY <1>1, EndsInPlain DEF NoAnswers
  <2> QED
    BY <2>1 DEF EndsOpen, EndsInAnswer
<1>2. x = <<>> => p \o x = p
  BY Longer
<1> QED
  BY <1>1, <1>2, Longer

(* Two answers in a row: the first was dropped. *)
Paired(p) == \A i \in 1..(Len(p) - 1) :
                IsAssistant(p[i]) /\ IsAssistant(p[i + 1]) => p[i] \in Dropped

LEMMA PairedGrows ==
  ASSUME NEW p \in Seq(Messages), NEW x \in Seq(Messages), Paired(p),
         NoAnswers(x) \/ (Rests(p) /\ Len(x) = 1)
  PROVE  Paired(p \o x)
<1> DEFINE n == Len(p)
           k == Len(x)
           c == p \o x
<1>1. /\ c \in Seq(Messages) /\ Len(c) = n + k /\ n \in Nat /\ k \in Nat
      /\ \A i \in 1..(n + k) : c[i] = IF i <= n THEN p[i] ELSE x[i - n]
  BY ConcatProperties, LenProperties
<1>2. n # 0 => p # <<>>
  OBVIOUS
<1>3. \A i \in 1..k : x[i] \in Messages
  OBVIOUS
<1> HIDE DEF c
<1> SUFFICES ASSUME NEW i \in 1..(Len(c) - 1), IsAssistant(c[i]), IsAssistant(c[i + 1])
             PROVE  c[i] \in Dropped
  BY DEF Paired, c
<1>4. i \in 1..(n + k) /\ i + 1 \in 1..(n + k) /\ i \in Nat /\ i >= 1
  BY <1>1
<1>5. CASE i + 1 <= n
  <2>1. i \in 1..(n - 1) /\ i <= n
    BY <1>1, <1>4, <1>5
  <2>2. c[i] = p[i] /\ c[i + 1] = p[i + 1]
    BY <1>1, <1>4, <1>5, <2>1
  <2> QED
    BY <2>1, <2>2 DEF Paired
<1>6. CASE ~(i + 1 <= n)
  <2>1. (i + 1) - n \in 1..k
    BY <1>1, <1>4, <1>6
  <2>2. c[i + 1] = x[(i + 1) - n]
    BY <1>1, <1>4, <1>6
  <2>3. x[(i + 1) - n] \in AnswerMessages
    BY <1>3, <2>1, <2>2, AnswerRole
  <2>4. ~NoAnswers(x)
    BY <2>1, <2>3 DEF NoAnswers
  <2>5. Rests(p) /\ k = 1
    BY <2>4
  <2>6. i = n
    BY <1>1, <1>4, <1>6, <2>5
  <2>7. c[i] = p[n] /\ p # <<>>
    BY <1>1, <1>2, <1>4, <2>6
  <2> QED
    BY <2>5, <2>7 DEF Rests, EndsInAnswer
<1> QED
  BY <1>5, <1>6

(* The file ends as what it gives does. *)
LEMMA SourceEnds ==
  ASSUME NEW p \in Seq(Messages), NEW l \in Nat, NEW k, l # 0 => k \in 1..Len(p), p # <<>>
  PROVE  /\ SourceAt(p, l, k) \in Seq(Messages) /\ SourceAt(p, l, k) # <<>>
         /\ SourceAt(p, l, k)[Len(SourceAt(p, l, k))] = p[Len(p)]
<1> DEFINE s == SourceAt(p, l, k)
<1>1. Len(p) \in Nat \ {0} /\ <<>> \in Seq(Messages)
  BY EmptySeq
<1>2. CASE l = 0
  BY <1>2 DEF SourceAt
<1>3. CASE l # 0
  <2>1. /\ s \in Seq(Messages) /\ Len(s) = Len(p) - k + 2
        /\ \A i \in k..Len(p) : s[i - k + 2] = p[i]
    <3>1. SourceAt(p, l, k) \in Seq(Messages) /\ Cuts(SourceAt(p, l, k), p, k)
      BY <1>1, <1>3, SourceGrows
    <3> QED
      BY <3>1 DEF Cuts
  <2>2. k \in 1..Len(p) /\ Len(p) \in k..Len(p)
    BY <1>1, <1>3
  <2> HIDE DEF s
  <2>3. s # <<>>
    BY <1>1, <2>1, <2>2
  <2>4. s[Len(s)] = p[Len(p)]
    BY <2>1, <2>2
  <2> QED
    BY <2>1, <2>3, <2>4 DEF s
<1> QED
  BY <1>2, <1>3

(* A transcript at rest that does not end in an answer has a file that rests. *)
LEMMA OpenRests ==
  ASSUME Types, Agrees, Cut, messages # <<>>, ~EndsInAnswer(messages)
  PROVE  Rests(persisted)
<1> DEFINE s == SourceAt(persisted, compactedLen, firstKept)
           a == messages[Len(messages)]
           b == persisted[Len(persisted)]
<1>1. messages \in Seq(Messages) /\ persisted \in Seq(Messages)
  BY DEF Types
<1> SUFFICES ASSUME EndsInAnswer(persisted), b \notin Dropped PROVE FALSE
  BY DEF Rests
<1>2. b \in AnswerMessages /\ persisted # <<>>
  BY <1>1, AnswerIs
<1>3. s \in Seq(Messages) /\ s # <<>> /\ s[Len(s)] = b
  BY <1>1, <1>2, SourceEnds DEF Cut
<1>4. Kept(messages) = Kept(s)
  BY DEF Agrees
<1> HIDE DEF s
<1>5. Kept(s)[Len(Kept(s))] = b
  BY <1>3, KeptLast
<1>6. a \in Messages /\ ~IsAssistant(a)
  BY <1>1, LastApart DEF EndsInAnswer
<1>7. a \notin Dropped
  BY <1>6, AnswerRole DEF Dropped
<1>8. Kept(messages)[Len(Kept(messages))] = a
  BY <1>1, <1>7, KeptLast
<1> QED
  BY <1>2, <1>4, <1>5, <1>6, <1>8, RolesOf DEF IsAssistant

(* The cut after a step: as before, or behind a new compaction. *)
Rebuilding ==
  /\ firstKept' \in 1..Len(persisted) /\ compactedLen' = Len(persisted)
  /\ persisted[firstKept'].role # "toolResult"

SameCut == UNCHANGED <<firstKept, compactedLen>>

(* The transcript b a step outside the loop goes on with: the old one or the one *)
(* rebuilt from the file, possibly without its last answer.                      *)
Based(b) ==
  \/ SameCut /\ b = messages
  \/ SameCut /\ b = Stripped(messages) /\ Rests(messages) /\ lastAssistant' = None
  \/ Rebuilding /\ b = RebuiltFrom(firstKept')
  \/ Rebuilding /\ b = Stripped(RebuiltFrom(firstKept')) /\ Rests(RebuiltFrom(firstKept'))

Follows(b) == Kept(b) = Kept(SourceAt(persisted, compactedLen', firstKept'))

CutInside == compactedLen' \in Nat /\ (compactedLen' # 0 => firstKept' \in 1..Len(persisted))

LEMMA GrowsAgrees ==
  ASSUME persisted \in Seq(Messages), CutInside, NEW b \in Seq(Messages), Follows(b),
         NEW x \in Seq(Messages), messages' = b \o x, persisted' = persisted \o x
  PROVE  Agrees' /\ Cut'
<1> DEFINE l == compactedLen'
           k == firstKept'
           s == SourceAt(persisted, l, k)
           t == SourceAt(persisted \o x, l, k)
<1>1. l \in Nat /\ (l # 0 => k \in 1..Len(persisted)) /\ Kept(b) = Kept(s)
  BY DEF CutInside, Follows
<1>2. Agrees' <=> Kept(b \o x) = Kept(t)
  BY DEF Agrees, SourceAt
<1>3. s \in Seq(Messages) /\ t = s \o x
  <2> HIDE DEF l, k
  <2>1. l \in Nat /\ (l # 0 => k \in 1..Len(persisted))
    BY <1>1
  <2>2. CASE l = 0
    BY <2>2 DEF SourceAt
  <2>3. CASE l # 0
    <3>1. l \in Nat /\ k \in 1..Len(persisted)
      BY <2>1, <2>3
    <3>2. /\ SourceAt(persisted, l, k) \in Seq(Messages)
          /\ SourceAt(persisted \o x, l, k) = SourceAt(persisted, l, k) \o x
      BY <3>1, SourceGrows
    <3> QED
      BY <3>2
  <2> QED
    BY <2>2, <2>3
<1> HIDE DEF l, k
<1> HIDE DEF s, t
<1>4. Kept(b \o x) = Kept(b) \o Kept(x) /\ Kept(s \o x) = Kept(s) \o Kept(x)
  BY <1>3, KeptConcat
<1>5. Agrees'
  BY <1>1, <1>2, <1>3, <1>4
<1>6. Len(persisted') >= Len(persisted) /\ Len(persisted) \in Nat /\ Len(persisted') \in Nat
  BY Longer
<1> QED
  BY <1>1, <1>5, <1>6 DEF Cut, l, k

(* What is rebuilt from the file: its end, and what precedes it. *)
LEMMA RebuiltEnds ==
  ASSUME persisted \in Seq(Messages), NEW k \in 1..Len(persisted)
  PROVE  LET r == RebuiltFrom(k)
             n == Len(persisted)
         IN  /\ r = SourceAt(persisted, n, k) /\ n \in Nat \ {0} /\ persisted # <<>>
             /\ r \in Seq(Messages) /\ r # <<>> /\ Len(r) = n - k + 2
             /\ r[1] = Summary /\ r[Len(r)] = persisted[n]
             /\ k < n => r[Len(r) - 1] = persisted[n - 1]
             /\ \A i \in k..n : r[i - k + 2] = persisted[i]
<1> DEFINE r == RebuiltFrom(k)
           n == Len(persisted)
<1>1. n \in Nat \ {0} /\ persisted # <<>> /\ k \in 1..n
  BY EmptySeq
<1>2. r = SourceAt(persisted, n, k)
  BY <1>1 DEF SourceAt, RebuiltFrom
<1>3. <<>> \in Seq(Messages)
  OBVIOUS
<1>4. SourceAt(persisted, n, k) \in Seq(Messages) /\ Cuts(SourceAt(persisted, n, k), persisted, k)
  BY <1>1, <1>3, SourceGrows
<1> HIDE DEF r
<1>5. /\ r \in Seq(Messages) /\ Len(r) = n - k + 2 /\ r[1] = Summary
      /\ \A i \in k..n : r[i - k + 2] = persisted[i]
  BY <1>2, <1>4 DEF Cuts
<1> HIDE DEF n
<1>6. r # <<>>
  BY <1>1, <1>5
<1>7. n \in k..n /\ (k < n => n - 1 \in k..n)
  BY <1>1
<1>8. r[n - k + 2] = persisted[n] /\ (k < n => r[(n - 1) - k + 2] = persisted[n - 1])
  BY <1>5, <1>7
<1>9. (n - 1) - k + 2 = Len(r) - 1
  BY <1>1, <1>5
<1> QED
  BY <1>1, <1>2, <1>5, <1>6, <1>8, <1>9 DEF r, n

LEMMA BasedIs ==
  ASSUME Types, ResInv, lastAssistant' \in {lastAssistant, None}, NEW b, Based(b)
  PROVE  /\ b \in Seq(Messages) /\ CutInside /\ Follows(b)
         /\ lastAssistant' # None /\ EndsInAnswer(b) => b[Len(b)] \in Dropped \cup {lastAssistant'}
<1>1. messages \in Seq(Messages) /\ persisted \in Seq(Messages)
  BY DEF Types
<1>2. CASE /\ SameCut
           /\ b = messages \/ (b = Stripped(messages) /\ Rests(messages) /\ lastAssistant' = None)
  <2>1. CutInside
    BY <1>2 DEF SameCut, CutInside, ResInv, Cut
  <2>2. Kept(messages) = Kept(SourceAt(persisted, compactedLen', firstKept'))
    BY <1>2 DEF SameCut, ResInv, Agrees
  <2>3. CASE b = messages
    BY <1>1, <2>1, <2>2, <2>3 DEF Follows, ResInv, Tracked
  <2>4. CASE b = Stripped(messages) /\ Rests(messages) /\ lastAssistant' = None
    BY <1>1, <2>1, <2>2, <2>4, KeptStripped DEF Follows
  <2> QED
    BY <1>2, <2>3, <2>4
<1>3. CASE /\ Rebuilding
           /\ \/ b = RebuiltFrom(firstKept')
              \/ b = Stripped(RebuiltFrom(firstKept')) /\ Rests(RebuiltFrom(firstKept'))
  <2> DEFINE k == firstKept'
             n == Len(persisted)
             r == RebuiltFrom(k)
  <2>1. k \in 1..n /\ compactedLen' = n
    BY <1>3 DEF Rebuilding
  <2>2. /\ r = SourceAt(persisted, n, k) /\ n \in Nat \ {0} /\ persisted # <<>>
        /\ r \in Seq(Messages) /\ r # <<>> /\ Len(r) = n - k + 2
        /\ r[1] = Summary /\ r[Len(r)] = persisted[n]
        /\ k < n => r[Len(r) - 1] = persisted[n - 1]
    BY <1>1, <2>1, RebuiltEnds
  <2>3. CutInside /\ Kept(r) = Kept(SourceAt(persisted, compactedLen', firstKept'))
    BY <2>1, <2>2 DEF CutInside
  <2>4. lastAssistant' # None => lastAssistant' = lastAssistant
    OBVIOUS
  <2> HIDE DEF r, k, n
  <2>5. CASE b = r
    <3>1. ASSUME lastAssistant' # None, EndsInAnswer(r) PROVE r[Len(r)] = lastAssistant'
      <4>1. EndsInAnswer(persisted)
        BY <2>2, <3>1 DEF EndsInAnswer, n
      <4> QED
        BY <2>2, <2>4, <3>1, <4>1 DEF ResInv, Tracked, n
    <3> QED
      BY <2>2, <2>3, <2>5, <3>1 DEF Follows
  <2>6. CASE b = Stripped(r) /\ Rests(r)
    <3>1. b \in Seq(Messages) /\ Kept(b) = Kept(r)
      BY <2>2, <2>6, KeptStripped
    <3>2. ASSUME lastAssistant' # None, EndsInAnswer(b)
          PROVE  b[Len(b)] \in Dropped \cup {lastAssistant'}
      <4>1. CASE ~EndsInAnswer(r)
        <5>1. b = r
          BY <2>2, <2>6, <4>1, LastApart DEF Stripped, EndsInAnswer
        <5> QED
          BY <3>2, <4>1, <5>1
      <4>2. CASE EndsInAnswer(r)
        <5> DEFINE f == Front(r)
                   j == Len(r) - 1
        <5>1. b = f
          BY <2>2, <2>6, <4>2, LastApart DEF Stripped, EndsInAnswer
        <5>2. /\ f \in Seq(Messages) /\ Len(f) = j /\ Len(r) \in Nat \ {0}
              /\ \A i \in 1..j : f[i] = r[i]
          BY <2>2, LastApart
        <5> HIDE DEF f, j
        <5>3. j # 0
          <6>1. b # <<>>
            BY <3>2 DEF EndsInAnswer
          <6> QED
            BY <5>1, <5>2, <6>1, EmptySeq
        <5>4. j \in 1..j /\ Len(b) = j /\ b[Len(b)] = r[j] /\ j = Len(r) - 1
          BY <5>1, <5>2, <5>3 DEF j
        <5>5. CASE k < n
          <6>1. r[j] = persisted[n - 1]
            BY <2>2, <5>4, <5>5
          <6>2. IsAssistant(persisted[n - 1])
            BY <3>2, <5>4, <6>1 DEF EndsInAnswer
          <6>3. IsAssistant(persisted[n])
            BY <2>2, <4>2 DEF EndsInAnswer
          <6>4. n - 1 \in 1..(Len(persisted) - 1) /\ (n - 1) + 1 = n
            BY <2>1, <2>2, <5>5 DEF n
          <6>5. persisted[n - 1] \in Dropped
            <7>1. \A i \in 1..(Len(persisted) - 1) :
                     IsAssistant(persisted[i]) /\ IsAssistant(persisted[i + 1]) => persisted[i] \in Dropped
              BY DEF ResInv, FileTurns
            <7> QED
              BY <6>2, <6>3, <6>4, <7>1
          <6> QED
            BY <5>4, <6>1, <6>5
        <5>6. CASE ~(k < n)
          <6>1. k = n /\ j = 1
            BY <2>1, <2>2, <5>4, <5>6
          <6>2. b[Len(b)] = Summary
            BY <2>2, <5>4, <6>1
          <6> QED
            BY <3>2, <6>2, RolesOf DEF EndsInAnswer, IsAssistant
        <5> QED
          BY <5>5, <5>6
      <4> QED
        BY <4>1, <4>2
    <3> QED
      BY <2>3, <3>1, <3>2 DEF Follows
  <2> QED
    BY <1>3, <2>5, <2>6 DEF r, k
<1> QED
  BY <1>2, <1>3 DEF Based

-----------------------------------------------------------------------------
(* A step outside the loop: the transcript b, and n shell results after it. *)
Moves(b, n) ==
  /\ n \in Nat /\ Based(b)
  /\ messages' = b \o BashMessages(n) /\ persisted' = persisted \o BashMessages(n)
  /\ UNCHANGED <<pc, pending, batch, turns, context>>
  /\ lastAssistant' \in {lastAssistant, None}
  /\ Idle /\ ~Settling' => lastAssistant' = None
  /\ Sleeps'
  /\ overlapped => overlapped'
  /\ isStreaming /\ ~overlapped' => b = messages /\ n = 0

(* A file that rests goes on resting when no answer is added. *)
LEMMA RestsOn ==
  ASSUME NEW p \in Seq(Messages), NEW x \in Seq(Messages), NoAnswers(x), Rests(p) \/ x # <<>>
  PROVE  Rests(p \o x)
<1>1. EndsInAnswer(p \o x) => p \o x = p /\ x = <<>>
  BY GrownEnd
<1> QED
  BY <1>1 DEF Rests

LEMMA MovesKeep ==
  ASSUME AInv, ResInv, NEW b, NEW n, Moves(b, n)
  PROVE  ResInv'
<1> DEFINE x == BashMessages(n)
<1>1. Types /\ messages \in Seq(Messages) /\ persisted \in Seq(Messages)
  BY DEF AInv, Types
<1>2. /\ messages' = b \o x /\ persisted' = persisted \o x
      /\ UNCHANGED <<pc, pending, batch>>
      /\ lastAssistant' \in {lastAssistant, None} /\ n \in Nat /\ Based(b)
  BY DEF Moves
<1>3. x \in Seq(Messages) /\ NoAnswers(x)
  BY <1>2, BashAre, NoAnswersAre
<1> HIDE DEF x
<1>4. /\ b \in Seq(Messages) /\ CutInside /\ Follows(b)
      /\ lastAssistant' # None /\ EndsInAnswer(b) => b[Len(b)] \in Dropped \cup {lastAssistant'}
  BY <1>1, <1>2, BasedIs
<1>5. Agrees' /\ Cut'
  BY <1>1, <1>2, <1>3, <1>4, GrowsAgrees
<1>6. FileTurns'
  <2>1. Paired(persisted')
    BY <1>1, <1>2, <1>3, PairedGrows DEF ResInv, FileTurns, Paired
  <2>2. Rests(persisted) => Rests(persisted')
    BY <1>1, <1>2, <1>3, RestsOn
  <2> QED
    BY <1>2, <2>1, <2>2 DEF ResInv, FileTurns, Paired
<1>7. Tracked'
  <2>1. Idle' /\ ~Settling' => lastAssistant' = None
    BY <1>2 DEF Moves, Idle
  <2>2. lastAssistant' # None /\ EndsInAnswer(persisted') => persisted'[Len(persisted')] = lastAssistant'
    <3>1. EndsInAnswer(persisted') => persisted' = persisted
      BY <1>1, <1>2, <1>3, GrownEnd
    <3> QED
      BY <1>2, <3>1 DEF ResInv, Tracked
  <2>3. lastAssistant' # None /\ EndsInAnswer(messages')
          => messages'[Len(messages')] \in Dropped \cup {lastAssistant'}
    <3>1. EndsInAnswer(messages') => messages' = b
      BY <1>2, <1>3, <1>4, GrownEnd
    <3> QED
      BY <1>4, <3>1
  <2> QED
    BY <2>1, <2>2, <2>3 DEF Tracked
<1> QED
  BY <1>5, <1>6, <1>7 DEF ResInv, Moves

(* A driver between its runs is alone only while the agent is idle. *)
LEMMA LoneMover ==
  ASSUME AInv, NEW d \in Drivers, driver[d].phase \notin {"off", "running"}
  PROVE  isStreaming => overlapped
<1> SUFFICES ASSUME isStreaming, ~overlapped PROVE FALSE
  BY DEF AInv, Types
<1>1. PICK e \in Drivers : driver[e].phase = "running"
  BY DEF AInv, OneRun
<1>2. d = e
  BY <1>1 DEF AInv, Alone
<1> QED
  BY <1>1, <1>2

(* The driver's record changes: who sleeps, and who settles. *)
LEMMA RecordChanges ==
  ASSUME Types, Sleeps, NEW d \in Drivers, NEW r, driver' = [driver EXCEPT ![d] = r],
         r.phase = "sleep" => r.msg.stop = "retryable"
  PROVE  /\ Sleeps'
         /\ ~Settling /\ r.phase # "post" => ~Settling'
<1>1. \A e \in Drivers : driver'[e] = IF e = d THEN r ELSE driver[e]
  BY DEF Types
<1>2. Sleeps'
  BY <1>1 DEF Sleeps
<1>3. ~Settling /\ r.phase # "post" => ~Settling'
  BY <1>1 DEF Settling
<1> QED
  BY <1>2, <1>3

(* A step of the driver d that lets the transcript grow by n shell results. *)
LEMMA DriverMoves ==
  ASSUME AInv, ResInv, ~Settling, NEW d \in Drivers, driver[d].phase \notin {"off", "running"},
         NEW r, driver' = [driver EXCEPT ![d] = r], r.phase \notin {"sleep", "post"},
         NEW b, Based(b), NEW n \in Nat,
         messages' = b \o BashMessages(n), persisted' = persisted \o BashMessages(n),
         UNCHANGED <<pc, pending, batch, turns, context, lastAssistant, overlapped>>
  PROVE  Moves(b, n)
<1>1. Sleeps' /\ ~Settling'
  BY RecordChanges DEF AInv, ResInv
<1>2. Idle => lastAssistant = None
  BY DEF ResInv, Tracked
<1>3. isStreaming => overlapped
  BY LoneMover
<1> QED
  BY <1>1, <1>2, <1>3 DEF Moves

(* Nothing is stored. *)
LEMMA NothingStored ==
  ASSUME NEW p \in Seq(Messages)
  PROVE  p = p \o BashMessages(0)
<1>1. BashMessages(0) = <<>>
  <2>1. BashMessages(0) \in Seq(Messages) /\ Len(BashMessages(0)) = 0
    BY BashAre
  <2> QED
    BY <2>1, EmptySeq
<1> QED
  BY <1>1, ConcatEmptySeq

LEMMA ThrowMoves ==
  ASSUME AInv, ResInv, ~Settling, NEW d \in Drivers, Throw(d),
         driver[d].phase \in {"submit", "resume"}
  PROVE  \E b, n : Moves(b, n)
<1>1. pendingBash \in Nat
  BY DEF AInv, Types
<1>2. /\ driver' = [driver EXCEPT ![d] = NoDriver]
      /\ messages' = messages \o BashMessages(pendingBash)
      /\ persisted' = persisted \o BashMessages(pendingBash)
      /\ UNCHANGED <<pc, pending, batch, turns, context, lastAssistant, overlapped, firstKept, compactedLen>>
  BY DEF Throw, flushPendingBashMessages
<1>3. NoDriver.phase \notin {"sleep", "post"}
  BY NoDriverRecord
<1>4. Based(messages)
  BY <1>2 DEF Based, SameCut
<1>5. Moves(messages, pendingBash)
  BY <1>1, <1>2, <1>3, <1>4, DriverMoves
<1> QED
  BY <1>5

LEMMA DelayMoves ==
  ASSUME AInv, ResInv, ~Settling, NEW d \in Drivers, retryDelayEnds(d)
  PROVE  \E b, n : Moves(b, n)
<1> DEFINE r == [driver[d] EXCEPT !.phase = "resume"]
<1>1. /\ driver[d].phase = "sleep"
      /\ UNCHANGED <<messages, persisted, pc, pending, batch, turns, context, lastAssistant,
                     overlapped, firstKept, compactedLen>>
  BY DEF retryDelayEnds, loopVars
<1>2. /\ driver' = [driver EXCEPT ![d] = r] /\ r.phase = "resume"
      /\ messages \in Seq(Messages) /\ persisted \in Seq(Messages)
  BY DriverRecord DEF retryDelayEnds, AInv, Types, Phases
<1>3. messages' = messages \o BashMessages(0) /\ persisted' = persisted \o BashMessages(0)
  BY <1>1, <1>2, NothingStored
<1>4. Based(messages)
  BY <1>1 DEF Based, SameCut
<1> HIDE DEF r
<1>5. Moves(messages, 0)
  BY <1>1, <1>2, <1>3, <1>4, DriverMoves
<1> QED
  BY <1>5

(* The driver d goes on as r behind the transcript b and n shell results. *)
Goes(d, r, b, n) ==
  /\ driver' = [driver EXCEPT ![d] = r] /\ r.phase \notin {"sleep", "post"}
  /\ n \in Nat
  /\ messages' = b \o BashMessages(n) /\ persisted' = persisted \o BashMessages(n)

LEMMA ContinueGoes ==
  ASSUME AInv, NEW d \in Drivers, NEW d0 \in DriverRecords, ContinueOrEnd(d, d0)
  PROVE  \E r, n : Goes(d, r, messages, n)
<1>1. messages \in Seq(Messages) /\ persisted \in Seq(Messages) /\ pendingBash \in Nat
  BY DEF AInv, Types
<1>2. CASE /\ driver' = [driver EXCEPT ![d] = [d0 EXCEPT !.phase = "resume"]]
           /\ UNCHANGED <<messages, persisted, pendingBash>>
  <2> DEFINE r == [d0 EXCEPT !.phase = "resume"]
  <2>1. r.phase = "resume" /\ driver' = [driver EXCEPT ![d] = r]
    BY <1>2, DriverRecord DEF Phases
  <2> HIDE DEF r
  <2>2. messages' = messages \o BashMessages(0) /\ persisted' = persisted \o BashMessages(0)
    BY <1>1, <1>2, NothingStored
  <2>3. Goes(d, r, messages, 0)
    BY <2>1, <2>2 DEF Goes
  <2> QED
    BY <2>3
<1>3. CASE driver' = [driver EXCEPT ![d] = Concluded(d0)] /\ flushPendingBashMessages
  <2>1. Concluded(d0).phase \in {"submit", "off"}
    <3>1. CASE d0.then = "submit"
      <4>1. [d0 EXCEPT !.phase = "submit"].phase = "submit"
        BY DriverRecord DEF Phases
      <4> QED
        BY <3>1, <4>1 DEF Concluded
    <3>2. CASE d0.then # "submit"
      BY <3>2, NoDriverRecord DEF Concluded
    <3> QED
      BY <3>1, <3>2
  <2>2. Goes(d, Concluded(d0), messages, pendingBash)
    BY <1>1, <1>3, <2>1 DEF Goes, flushPendingBashMessages
  <2> QED
    BY <2>2
<1> QED
  BY <1>2, <1>3 DEF ContinueOrEnd

(* Only an overflow takes the last answer away. *)
LEMMA OverflowDecision ==
  ASSUME NEW m, NEW skip, "overflow" \in checkCompaction(m, skip)
  PROVE  m.stop \in {"overflow", "silent"}
<1> DEFINE c1 == skip /\ m.stop = "aborted"
           c2 == m.turn <= compactedAt
           c3 == m.stop \in {"overflow", "silent"}
           c4 == m.stop \in Errors /\ ~\E a \in {b \in Range(messages) : IsAssistant(b) /\ b.stop \notin Failed} :
                                         a.turn > compactedAt
           o == {IF overflowTried THEN "none" ELSE "overflow"}
<1> SUFFICES ASSUME ~c3 PROVE FALSE
  OBVIOUS
<1>1. checkCompaction(m, skip) =
        CASE c1 -> {"none"} [] c2 -> {"none"} [] c3 -> o [] c4 -> {"none"}
          [] OTHER -> {"none", "threshold"}
  BY DEF checkCompaction
<1> HIDE DEF c1, c2, c3, c4, o
<1>2. checkCompaction(m, skip) \in {{"none"}, {"none", "threshold"}}
  BY <1>1
<1> QED
  BY <1>2

LEMMA AfterRetryGoes ==
  ASSUME AInv, SameCut, NEW d \in Drivers, NEW d0 \in DriverRecords, AfterRetry(d, d0),
         d0.msg.stop \in {"overflow", "silent"} => Rests(messages) /\ lastAssistant' = None
  PROVE  \E r, b, n : Goes(d, r, b, n) /\ Based(b)
<1>1. PICK decision \in checkCompaction(d0.msg, TRUE) :
         \/ decision = "none" /\ ContinueOrEnd(d, d0)
         \/ /\ decision # "none" /\ StartCompaction(d, d0, decision, messages)
            /\ UNCHANGED <<persisted, pendingBash>>
  BY DEF AfterRetry
<1>2. messages \in Seq(Messages) /\ persisted \in Seq(Messages) /\ Len(persisted) \in Nat
  BY DEF AInv, Types
<1>3. Based(messages)
  BY DEF Based
<1>4. CASE decision = "none"
  <2>1. PICK r, n : Goes(d, r, messages, n)
    BY <1>1, <1>4, ContinueGoes
  <2> QED
    BY <1>3, <2>1
<1>5. CASE decision # "none"
  <2> DEFINE r == Compacting(d0, decision, Len(persisted))
             b == IF decision = "overflow" THEN Stripped(messages) ELSE messages
  <2>1. decision \in {"threshold", "overflow"}
    BY <1>1, <1>5, Decisions
  <2>2. r.phase = "compact"
    BY <1>2, <2>1, CompactRecord
  <2>3. driver' = [driver EXCEPT ![d] = r] /\ messages' = b /\ persisted' = persisted
    BY <1>1, <1>5 DEF StartCompaction, Compacting
  <2>4. b \in Seq(Messages) /\ Based(b)
    <3>1. CASE decision = "overflow"
      <4>1. Rests(messages) /\ lastAssistant' = None
        BY <1>1, <3>1, OverflowDecision
      <4>2. Stripped(messages) \in Seq(Messages)
        BY <1>2, <4>1, KeptStripped
      <4> QED
        BY <3>1, <4>1, <4>2 DEF Based
    <3>2. CASE decision # "overflow"
      BY <1>2, <1>3, <3>2
    <3> QED
      BY <3>1, <3>2
  <2> HIDE DEF r, b
  <2>5. messages' = b \o BashMessages(0) /\ persisted' = persisted \o BashMessages(0)
    BY <1>2, <2>3, <2>4, NothingStored
  <2>6. Goes(d, r, b, 0)
    BY <2>2, <2>3, <2>5 DEF Goes
  <2> QED
    BY <2>4, <2>6
<1> QED
  BY <1>4, <1>5

(* The last answer of a run was dropped, or is the one that was tracked. *)
LEMMA TrackedRests ==
  ASSUME AInv, ResInv, lastAssistant # None, lastAssistant.stop \in Failed \cup {"silent"}
  PROVE  Rests(messages)
<1>1. lastAssistant \in Dropped
  BY DEF AInv, Types, Dropped
<1> QED
  BY <1>1 DEF ResInv, Tracked, Rests

LEMMA PostMoves ==
  ASSUME AInv, ResInv, NEW d \in Drivers, handlePostAgentRun(d)
  PROVE  \E b, n : Moves(b, n)
<1> DEFINE d0 == [driver[d] EXCEPT !.msg = lastAssistant]
<1>1. driver[d].phase = "post" /\ lastAssistant # None /\ Idle /\ lastAssistant' = None
  BY DEF handlePostAgentRun, AInv, OneRun
<1>2. /\ driver[d] \in DriverRecords /\ lastAssistant \in AnswerMessages
      /\ messages \in Seq(Messages) /\ persisted \in Seq(Messages) /\ Types /\ Sleeps
  BY <1>1 DEF AInv, Types, ResInv
<1>3. d0 \in DriverRecords /\ d0.msg = lastAssistant
  BY <1>2 DEF DriverRecords
<1>4. UNCHANGED <<pc, pending, batch, turns, context, overlapped>> /\ SameCut
  BY DEF handlePostAgentRun, SameCut
<1>5. CASE /\ prepareRetry(lastAssistant)
           /\ messages' = Stripped(messages)
           /\ driver' = [driver EXCEPT ![d] = [d0 EXCEPT !.phase = "sleep"]]
           /\ persisted' = persisted
  <2> DEFINE r == [d0 EXCEPT !.phase = "sleep"]
             b == Stripped(messages)
  <2>1. lastAssistant.stop = "retryable"
    BY <1>5 DEF prepareRetry
  <2>2. Rests(messages)
    BY <1>1, <2>1, TrackedRests DEF Failed, Errors
  <2>3. b \in Seq(Messages) /\ Based(b)
    BY <1>1, <1>2, <1>4, <2>2, KeptStripped DEF Based
  <2>4. r.msg.stop = "retryable" /\ driver' = [driver EXCEPT ![d] = r]
    BY <1>3, <1>5, <2>1, DriverRecord DEF Phases
  <2> HIDE DEF r, d0
  <2>5. Sleeps'
    BY <1>2, <2>4, RecordChanges
  <2>6. messages' = b \o BashMessages(0) /\ persisted' = persisted \o BashMessages(0)
    BY <1>2, <1>5, <2>3, NothingStored
  <2>7. Moves(b, 0)
    BY <1>1, <1>4, <2>3, <2>5, <2>6 DEF Moves, isStreaming
  <2> QED
    BY <2>7
<1>6. CASE AfterRetry(d, d0)
  <2> HIDE DEF d0
  <2>1. d0.msg.stop \in {"overflow", "silent"} => Rests(messages) /\ lastAssistant' = None
    BY <1>1, <1>3, TrackedRests DEF Failed, Errors
  <2>2. PICK r, b, n : Goes(d, r, b, n) /\ Based(b)
    BY <1>3, <1>4, <1>6, <2>1, AfterRetryGoes
  <2>3. Sleeps'
    BY <1>2, <2>2, RecordChanges DEF Goes
  <2>4. Moves(b, n)
    BY <1>1, <1>4, <2>2, <2>3 DEF Moves, Goes, isStreaming
  <2> QED
    BY <2>4
<1> QED
  BY <1>1, <1>5, <1>6 DEF handlePostAgentRun

LEMMA AbortRetryMoves ==
  ASSUME AInv, ResInv, ~Settling, abortRetry
  PROVE  \E b, n : Moves(b, n)
<1>1. /\ sleeper \in Drivers /\ driver[sleeper].phase = "sleep"
      /\ driver[sleeper] \in DriverRecords
  BY DEF abortRetry, AInv, Types, OneRun
<1>2. driver[sleeper].msg.stop = "retryable"
  BY <1>1 DEF ResInv, Sleeps
<1>3. /\ AfterRetry(sleeper, driver[sleeper]) /\ SameCut
      /\ UNCHANGED <<pc, pending, batch, turns, context, lastAssistant, overlapped>>
  BY DEF abortRetry, SameCut
<1>4. PICK r, b, n : Goes(sleeper, r, b, n) /\ Based(b)
  BY <1>1, <1>2, <1>3, AfterRetryGoes
<1>5. Moves(b, n)
  BY <1>1, <1>3, <1>4, DriverMoves DEF Goes
<1> QED
  BY <1>5

LEMMA FailsMoves ==
  ASSUME AInv, ResInv, ~Settling, NEW d \in Drivers, compactionFails(d)
  PROVE  \E b, n : Moves(b, n)
<1>1. /\ driver[d].phase = "compact" /\ driver[d] \in DriverRecords
      /\ messages \in Seq(Messages) /\ persisted \in Seq(Messages)
      /\ UNCHANGED <<pc, pending, batch, turns, context, lastAssistant, overlapped>>
      /\ SameCut
  BY DEF compactionFails, AInv, Types, SameCut
<1>2. Based(messages)
  BY <1>1 DEF Based
<1>3. CASE ContinueOrEnd(d, driver[d])
  <2>1. PICK r, n : Goes(d, r, messages, n)
    BY <1>1, <1>3, ContinueGoes
  <2>2. Moves(messages, n)
    BY <1>1, <1>2, <2>1, DriverMoves DEF Goes
  <2> QED
    BY <2>2
<1>4. CASE /\ driver' = [driver EXCEPT ![d].phase = "submit"]
           /\ UNCHANGED <<messages, persisted, pendingBash>>
  <2> DEFINE r == [driver[d] EXCEPT !.phase = "submit"]
  <2>1. r.phase = "submit" /\ driver' = [driver EXCEPT ![d] = r]
    BY <1>1, <1>4, DriverRecord DEF Phases, AInv, Types
  <2> HIDE DEF r
  <2>2. messages' = messages \o BashMessages(0) /\ persisted' = persisted \o BashMessages(0)
    BY <1>1, <1>4, NothingStored
  <2>3. Moves(messages, 0)
    BY <1>1, <1>2, <2>1, <2>2, DriverMoves
  <2> QED
    BY <2>3
<1> QED
  BY <1>3, <1>4 DEF compactionFails

LEMMA SucceedsMoves ==
  ASSUME AInv, ResInv, ~Settling, NEW d \in Drivers, compactionSucceeds(d)
  PROVE  \E b, n : Moves(b, n)
<1>1. /\ driver[d].phase = "compact" /\ driver[d] \in DriverRecords
      /\ persisted \in Seq(Messages) /\ Len(persisted) \in Nat /\ pendingBash \in Nat
      /\ driver[d].len <= Len(persisted) /\ driver[d].len \in Nat
      /\ firstKept \in 1..(Len(persisted) + 1)
      /\ UNCHANGED <<pc, pending, batch, turns, context, lastAssistant, overlapped>>
  BY DEF compactionSucceeds, AInv, Types, InsideFile, DriverRecords
<1>2. PICK k \in findValidCutPoints(driver[d].len) :
         LET rebuilt == RebuiltFrom(k)
             failed == IsAssistant(Last(rebuilt)) /\ Last(rebuilt).stop \in Errors
             overflow == driver[d].reason = "overflow"
         IN  /\ firstKept' = k
             /\ compactedLen' = Len(persisted)
             /\ \/ /\ messages' = IF overflow /\ failed THEN Front(rebuilt) ELSE rebuilt
                   /\ driver' = [driver EXCEPT ![d].phase = "resume"]
                   /\ UNCHANGED <<persisted, pendingBash>>
                \/ /\ driver' = [driver EXCEPT ![d] = Concluded(driver[d])]
                   /\ messages' = rebuilt \o BashMessages(pendingBash)
                   /\ persisted' = persisted \o BashMessages(pendingBash)
  BY DEF compactionSucceeds
<1>3. k \in 1..Len(persisted) /\ firstKept' = k /\ persisted[k].role # "toolResult"
  BY <1>1, <1>2 DEF findValidCutPoints
<1>4. Rebuilding
  BY <1>2, <1>3 DEF Rebuilding
<1> DEFINE rebuilt == RebuiltFrom(k)
           failed == IsAssistant(Last(rebuilt)) /\ Last(rebuilt).stop \in Errors
<1>5. rebuilt \in Seq(Messages) /\ rebuilt # <<>>
  BY <1>1, <1>3, RebuiltEnds
<1>6. Based(rebuilt)
  BY <1>3, <1>4 DEF Based
<1>7. failed => Front(rebuilt) = Stripped(rebuilt) /\ Rests(rebuilt) /\ Front(rebuilt) \in Seq(Messages)
  <2> HIDE DEF rebuilt
  <2> SUFFICES ASSUME failed
               PROVE  Front(rebuilt) = Stripped(rebuilt) /\ Rests(rebuilt) /\ Front(rebuilt) \in Seq(Messages)
    OBVIOUS
  <2>1. Last(rebuilt) = rebuilt[Len(rebuilt)] /\ Last(rebuilt) \in Messages /\ Front(rebuilt) \in Seq(Messages)
    BY <1>5, LastApart
  <2>2. Last(rebuilt) \in Dropped
    BY <2>1, AnswerRole DEF Dropped, Failed
  <2> QED
    BY <1>5, <2>1, <2>2 DEF Stripped, Rests
<1>8. failed => Based(Front(rebuilt))
  BY <1>3, <1>4, <1>7 DEF Based
<1>9. CASE /\ messages' \in {rebuilt, Front(rebuilt)} /\ (messages' = rebuilt \/ failed)
           /\ driver' = [driver EXCEPT ![d].phase = "resume"]
           /\ persisted' = persisted
  <2> DEFINE r == [driver[d] EXCEPT !.phase = "resume"]
             b == messages'
  <2>1. r.phase = "resume" /\ driver' = [driver EXCEPT ![d] = r]
    BY <1>1, <1>9, DriverRecord DEF Phases, AInv, Types
  <2>2. b \in Seq(Messages) /\ Based(b) /\ messages' = b
    BY <1>5, <1>6, <1>7, <1>8, <1>9
  <2> HIDE DEF r, b, rebuilt, failed
  <2>3. messages' = b \o BashMessages(0) /\ persisted' = persisted \o BashMessages(0)
    BY <1>1, <1>9, <2>2, NothingStored
  <2>4. Moves(b, 0)
    BY <1>1, <2>1, <2>2, <2>3, DriverMoves
  <2> QED
    BY <2>4
<1>10. CASE /\ driver' = [driver EXCEPT ![d] = Concluded(driver[d])]
            /\ messages' = rebuilt \o BashMessages(pendingBash)
            /\ persisted' = persisted \o BashMessages(pendingBash)
  <2>1. Concluded(driver[d]).phase \in {"submit", "off"}
    <3>1. CASE driver[d].then = "submit"
      <4>1. [driver[d] EXCEPT !.phase = "submit"].phase = "submit"
        BY <1>1, DriverRecord DEF Phases
      <4> QED
        BY <3>1, <4>1 DEF Concluded
    <3>2. CASE driver[d].then # "submit"
      BY <3>2, NoDriverRecord DEF Concluded
    <3> QED
      BY <3>1, <3>2
  <2> DEFINE r == Concluded(driver[d])
  <2>2. driver' = [driver EXCEPT ![d] = r] /\ r.phase \notin {"sleep", "post"}
    BY <1>10, <2>1
  <2> HIDE DEF r, rebuilt
  <2>3. Moves(rebuilt, pendingBash)
    BY <1>1, <1>6, <1>10, <2>2, DriverMoves
  <2> QED
    BY <2>3
<1> QED
  BY <1>2, <1>9, <1>10

LEMMA BashMoves ==
  ASSUME AInv, ResInv, ~Settling, recordBashResult
  PROVE  \E b, n : Moves(b, n)
<1>1. /\ UNCHANGED <<pc, pending, batch, turns, context, lastAssistant, overlapped, driver>> /\ SameCut
      /\ messages \in Seq(Messages) /\ persisted \in Seq(Messages)
  BY DEF recordBashResult, SameCut, AInv, Types
<1>2. Based(messages) /\ Sleeps' /\ (Idle => lastAssistant' = None)
  BY <1>1 DEF Based, ResInv, Sleeps, Tracked
<1>3. CASE isStreaming /\ UNCHANGED <<messages, persisted>>
  <2>1. messages' = messages \o BashMessages(0) /\ persisted' = persisted \o BashMessages(0)
    BY <1>1, <1>3, NothingStored
  <2>2. Moves(messages, 0)
    BY <1>1, <1>2, <2>1 DEF Moves
  <2> QED
    BY <2>2
<1>4. CASE Idle /\ messages' = Append(messages, Bash) /\ persisted' = Append(persisted, Bash)
  <2>1. Bash \in Messages /\ BashMessages(1) = <<Bash>>
    <3>1. BashMessages(1) \in Seq(Messages) /\ Len(BashMessages(1)) = 1 /\ BashMessages(1)[1] = Bash
      <4>1. 1 \in Nat /\ 1 \in 1..1
        OBVIOUS
      <4> QED
        BY <4>1, BashAre
    <3> DEFINE u == BashMessages(1)
    <3>2. u \in Seq(Messages) /\ Len(u) = 1 /\ u[1] = Bash
      BY <3>1
    <3> HIDE DEF u
    <3>3. u = <<Bash>>
      BY <3>2
    <3> QED
      BY <3>3 DEF u, Messages
  <2>2. messages' = messages \o BashMessages(1) /\ persisted' = persisted \o BashMessages(1)
    BY <1>1, <1>4, <2>1, OneMessage
  <2>3. Moves(messages, 1)
    BY <1>1, <1>2, <1>4, <2>2 DEF Moves, isStreaming
  <2> QED
    BY <2>3
<1> QED
  BY <1>3, <1>4 DEF recordBashResult

(* Steps that leave transcript, file and drivers alone. *)
LEMMA StillMoves ==
  ASSUME AInv, ResInv,
         UNCHANGED <<messages, persisted, firstKept, compactedLen, pc, pending, batch, turns,
                     context, lastAssistant, driver, overlapped>>
  PROVE  \E b, n : Moves(b, n)
<1>1. messages' = messages \o BashMessages(0) /\ persisted' = persisted \o BashMessages(0)
  BY NothingStored DEF AInv, Types
<1>2. Sleeps' /\ Based(messages) /\ (Idle /\ ~Settling' => lastAssistant' = None)
  BY DEF ResInv, Sleeps, Based, SameCut, Tracked, Settling
<1>3. Moves(messages, 0)
  BY <1>1, <1>2 DEF Moves
<1> QED
  BY <1>3

(* If a transcript ends in an answer, that is the newest one. *)
LEMMA NewestIsLast ==
  ASSUME NEW ms \in Seq(Messages), EndsInAnswer(ms)
  PROVE  NewestAnswer(ms) = ms[Len(ms)]
<1> DEFINE n == Len(ms)
           S == {i \in 1..n : IsAssistant(ms[i])}
<1>1. n \in Nat \ {0}
  BY AnswerIs
<1>2. n \in S /\ \A i \in S : n >= i /\ i \in Nat
  BY <1>1 DEF EndsInAnswer
<1>3. Max(S) = n
  <2> HIDE DEF S, n
  <2>1. \A j \in S : (\A i \in S : j >= i) => j = n
    BY <1>1, <1>2
  <2> QED
    BY <1>2, <2>1 DEF Max
<1>4. SelectLastInSeq(ms, IsAssistant) = n
  BY <1>1, <1>2, <1>3 DEF SelectLastInSeq
<1> QED
  BY <1>1, <1>4 DEF NewestAnswer

LEMMA PromptingMoves ==
  ASSUME AInv, ResInv, ~Settling, NEW d \in Drivers, NEW t \in Texts, promptWhileIdle(d, t)
  PROVE  \E b, n : Moves(b, n)
<1> DEFINE answer == NewestAnswer(messages)
           x == BashMessages(pendingBash)
           flushed == messages \o x
           d0 == [NoDriver EXCEPT !.text = t, !.then = "submit"]
<1>1. /\ Idle /\ driver[d].phase = "off" /\ persisted' = persisted \o x
      /\ UNCHANGED <<pc, pending, batch, turns, context, lastAssistant>> /\ SameCut
      /\ overlapped => overlapped'
  BY DEF promptWhileIdle, SameCut
<1>2. /\ messages \in Seq(Messages) /\ persisted \in Seq(Messages) /\ pendingBash \in Nat
      /\ Types /\ Sleeps /\ lastAssistant = None /\ Len(persisted) \in Nat
  BY <1>1 DEF AInv, Types, ResInv, Tracked
<1>3. PICK decision \in IF answer = None THEN {"none"} ELSE checkCompaction(answer, FALSE) :
             \/ /\ decision = "none"
                /\ driver' = [driver EXCEPT ![d] = [d0 EXCEPT !.phase = "submit"]]
                /\ messages' = flushed
             \/ /\ decision # "none"
                /\ StartCompaction(d, d0, decision, flushed)
  BY DEF promptWhileIdle
<1>4. d0 \in DriverRecords
  BY DEF NoDriver, DriverRecords, Phases
<1>5. x \in Seq(Messages) /\ NoAnswers(x) /\ flushed \in Seq(Messages)
  BY <1>2, BashAre, NoAnswersAre, GrownEnd
<1> HIDE DEF d0, answer
<1>6. CASE /\ decision = "none"
           /\ driver' = [driver EXCEPT ![d] = [d0 EXCEPT !.phase = "submit"]]
           /\ messages' = flushed
  <2> DEFINE r == [d0 EXCEPT !.phase = "submit"]
  <2>1. r.phase = "submit" /\ driver' = [driver EXCEPT ![d] = r]
    BY <1>4, <1>6, DriverRecord DEF Phases
  <2> HIDE DEF r
  <2>2. Sleeps'
    BY <1>2, <2>1, RecordChanges
  <2>3. Based(messages)
    BY <1>1 DEF Based
  <2>4. Moves(messages, pendingBash)
    BY <1>1, <1>2, <1>6, <2>2, <2>3 DEF Moves, isStreaming
  <2> QED
    BY <2>4
<1>7. CASE decision # "none" /\ StartCompaction(d, d0, decision, flushed)
  <2> DEFINE s == Compacting(d0, decision, Len(persisted))
  <2>1. decision \in checkCompaction(answer, FALSE)
    BY <1>3, <1>7
  <2>2. decision \in {"threshold", "overflow"}
    BY <1>7, <2>1, Decisions
  <2>3. s.phase = "compact" /\ driver' = [driver EXCEPT ![d] = s]
        /\ messages' = IF decision = "overflow" THEN Stripped(flushed) ELSE flushed
    <3>1. s.phase = "compact"
      BY <1>2, <1>4, <2>2, CompactRecord
    <3>2. driver' = [driver EXCEPT ![d] = s]
      BY <1>7, Zenon DEF StartCompaction, Compacting
    <3>3. messages' = IF decision = "overflow" THEN Stripped(flushed) ELSE flushed
      BY <1>7, Zenon DEF StartCompaction
    <3> QED
      BY <3>1, <3>2, <3>3
  <2>4. Sleeps'
    <3> HIDE DEF s
    <3> QED
      BY <1>2, <2>3, RecordChanges
  <2>5. Based(messages)
    BY <1>1 DEF Based
  <2>6. CASE messages' = flushed
    <3>1. Moves(messages, pendingBash)
      BY <1>1, <1>2, <2>4, <2>5, <2>6 DEF Moves, isStreaming
    <3> QED
      BY <3>1
  <2>7. CASE decision = "overflow" /\ messages' # flushed
    <3>1. messages' = Stripped(flushed)
      BY <2>3, <2>7
    <3>2. EndsInAnswer(flushed)
      BY <1>5, <2>7, <3>1, LastApart DEF Stripped, EndsInAnswer
    <3>3. x = <<>> /\ flushed = messages
      BY <1>2, <1>5, <3>2, GrownEnd
    <3>4. answer = messages[Len(messages)] /\ answer \in AnswerMessages
      BY <1>2, <3>2, <3>3, NewestIsLast, AnswerIs DEF answer
    <3>5. answer.stop \in {"overflow", "silent"}
      BY <2>1, <2>7, OverflowDecision
    <3>6. Rests(messages)
      BY <3>4, <3>5 DEF Rests, Dropped, Failed, Errors
    <3> DEFINE b == Stripped(messages)
    <3>7. b \in Seq(Messages) /\ Based(b)
      BY <1>1, <1>2, <3>6, KeptStripped DEF Based
    <3>8. messages' = b /\ persisted' = persisted
      BY <1>1, <1>2, <3>1, <3>3, ConcatEmptySeq
    <3> HIDE DEF b
    <3>9. messages' = b \o BashMessages(0) /\ persisted' = persisted \o BashMessages(0)
      BY <1>2, <3>7, <3>8, NothingStored
    <3>10. Moves(b, 0)
      BY <1>1, <1>2, <2>4, <3>7, <3>9 DEF Moves, isStreaming
    <3> QED
      BY <3>10
  <2> QED
    BY <2>2, <2>3, <2>6, <2>7
<1> QED
  BY <1>3, <1>6, <1>7

LEMMA MovesOutside ==
  ASSUME AInv, ResInv,
         \/ \E d \in Drivers : handlePostAgentRun(d)
         \/ /\ ~Settling
            /\ \/ \E d \in Drivers : retryDelayEnds(d) \/ compactionFails(d) \/ compactionSucceeds(d)
               \/ \E d \in Drivers : driver[d].phase \in {"submit", "resume"} /\ Throw(d)
               \/ UserStep
         \/ UNCHANGED agentVars
  PROVE  \E b, n : Moves(b, n)
<1>1. ASSUME NEW t \in Texts, promptWhileStreaming(t) PROVE \E b, n : Moves(b, n)
  BY <1>1, StillMoves DEF promptWhileStreaming
<1>2. CASE abortRun \/ clearQueue \/ UNCHANGED agentVars
  BY <1>2, StillMoves DEF abortRun, clearQueue, agentVars, loopVars, sessionVars
<1> QED
  BY <1>1, <1>2, PostMoves, DelayMoves, FailsMoves, SucceedsMoves, ThrowMoves, PromptingMoves,
     AbortRetryMoves, BashMoves DEF UserStep

-----------------------------------------------------------------------------
(* The steps of the loop, and the start of a run. *)

LEMMA GrowsTogether ==
  ASSUME Types, ResInv, SameCut,
         NEW x \in Seq(Messages), messages' = messages \o x, persisted' = persisted \o x
  PROVE  Agrees' /\ Cut'
<1>1. messages \in Seq(Messages) /\ persisted \in Seq(Messages)
  BY DEF Types
<1>2. CutInside
  BY DEF SameCut, CutInside, ResInv, Cut
<1>3. Follows(messages)
  BY DEF SameCut, ResInv, Agrees, Follows
<1> QED
  BY <1>1, <1>2, <1>3, GrowsAgrees

(* Messages other than answers leave the last answer where it was. *)
LEMMA GrowsTracked ==
  ASSUME Types, ResInv, NEW x \in Seq(Messages), NoAnswers(x),
         messages' = messages \o x, persisted' = persisted \o x, lastAssistant' = lastAssistant,
         Idle' /\ ~Settling' => lastAssistant = None
  PROVE  Tracked' /\ Paired(persisted')
<1>1. messages \in Seq(Messages) /\ persisted \in Seq(Messages)
  BY DEF Types
<1>2. EndsInAnswer(messages') => messages' = messages
  BY <1>1, GrownEnd
<1>3. EndsInAnswer(persisted') => persisted' = persisted
  BY <1>1, GrownEnd
<1>4. Paired(persisted')
  BY <1>1, PairedGrows DEF ResInv, FileTurns, Paired
<1> QED
  BY <1>2, <1>3, <1>4 DEF ResInv, Tracked

LEMMA ToolStepResumes ==
  ASSUME AInv, ResInv, SameCut, driver' = driver, NEW x, ToolStep(x)
  PROVE  ResInv'
<1>1. /\ Types /\ x \in Seq(Messages) /\ NoAnswers(x) /\ persisted \in Seq(Messages)
      /\ messages' = messages \o x /\ persisted' = persisted \o x /\ lastAssistant' = lastAssistant
      /\ pc \in {"preflight", "execute", "results"} /\ pc' \in {"preflight", "execute", "results", "turnEnd"}
  BY NoAnswersAre DEF AInv, Types, ToolStep
<1>2. Agrees' /\ Cut'
  BY <1>1, GrowsTogether
<1>3. Tracked' /\ Paired(persisted')
  BY <1>1, GrowsTracked DEF Idle
<1>4. pc' = "results" /\ batch'.started > 0 => Rests(persisted')
  BY <1>1, RestsOn DEF ToolStep
<1>5. pc' = "turnEnd" /\ batch'.started > 0 => Rests(persisted')
  <2>1. SUFFICES ASSUME pc' = "turnEnd", batch'.started > 0 PROVE Rests(persisted')
    OBVIOUS
  <2>2. pc = "results" /\ batch.started > 0
    BY <2>1 DEF ToolStep
  <2>3. Rests(persisted)
    BY <2>2 DEF ResInv, FileTurns
  <2> QED
    BY <1>1, <2>3, RestsOn
<1>6. FileTurns'
  BY <1>1, <1>3, <1>4, <1>5 DEF FileTurns, Paired
<1>7. Sleeps'
  BY DEF ResInv, Sleeps
<1> QED
  BY <1>2, <1>3, <1>6, <1>7 DEF ResInv

LEMMA AnswerStepResumes ==
  ASSUME AInv, ResInv, SameCut, driver' = driver, NEW m, AnswerStep(m)
  PROVE  ResInv'
<1> DEFINE x == <<m>>
<1>1. /\ Types /\ messages \in Seq(Messages) /\ persisted \in Seq(Messages)
      /\ m \in AnswerMessages /\ m \in Messages /\ IsAssistant(m)
      /\ messages' = messages \o x /\ persisted' = persisted \o x /\ lastAssistant' = m
      /\ pc = "request" /\ pc' \in {"finish", "preflight", "turnEnd"}
      /\ (pc' = "turnEnd" => batch'.started = 0)
  BY RolesOf DEF AInv, Types, AnswerStep, Messages, IsAssistant
<1>2. x \in Seq(Messages) /\ Len(x) = 1 /\ x[1] = m /\ x # <<>>
  BY <1>1, OneMessage
<1> HIDE DEF x
<1>3. Agrees' /\ Cut'
  BY <1>1, <1>2, GrowsTogether
<1>4. Rests(persisted)
  BY <1>1 DEF ResInv, FileTurns
<1>5. Paired(persisted')
  BY <1>1, <1>2, <1>4, PairedGrows DEF ResInv, FileTurns, Paired
<1>6. FileTurns'
  <2>1. ~(pc' = "turnEnd" /\ batch'.started > 0)
    BY <1>1
  <2>2. pc' \notin {"poll", "request", "turn", "results"}
    BY <1>1
  <2> QED
    BY <1>5, <2>1, <2>2 DEF FileTurns, Paired
<1>7. messages'[Len(messages')] = m /\ persisted'[Len(persisted')] = m
  <2>1. /\ (messages \o x)[Len(messages \o x)] = x[Len(x)]
        /\ (persisted \o x)[Len(persisted \o x)] = x[Len(x)]
    BY <1>1, <1>2, Longer
  <2> QED
    BY <1>1, <1>2, <2>1
<1>8. Tracked'
  BY <1>1, <1>7 DEF Tracked, Idle
<1>9. Sleeps'
  BY DEF ResInv, Sleeps
<1> QED
  BY <1>3, <1>6, <1>8, <1>9 DEF ResInv

LEMMA PollStepResumes ==
  ASSUME AInv, ResInv, SameCut, driver' = driver, NEW to, NEW rest, PollStep(to, rest)
  PROVE  ResInv'
<1>1. /\ messages' = messages /\ persisted' = persisted /\ pending' = to
      /\ lastAssistant' = lastAssistant
  BY DEF PollStep, Polls
<1>2. Agrees' /\ Cut'
  BY <1>1 DEF ResInv, Agrees, Cut, SameCut
<1>3. pc \in {"poll", "turnEnd", "followUps"} /\ pc' \in {"turn", "followUps", "finish"}
  BY DEF PollStep
<1>4. pc' = "turn" /\ pending' = <<>> => Rests(persisted)
  BY <1>1 DEF PollStep, ResInv, FileTurns
<1>5. FileTurns'
  BY <1>1, <1>3, <1>4 DEF ResInv, FileTurns
<1>6. Tracked'
  BY <1>1, <1>3 DEF ResInv, Tracked, Idle
<1>7. Sleeps'
  BY DEF ResInv, Sleeps
<1> QED
  BY <1>2, <1>5, <1>6, <1>7 DEF ResInv

LEMMA TurnStepResumes ==
  ASSUME AInv, ResInv, SameCut, driver' = driver, TurnStep
  PROVE  ResInv'
<1> DEFINE x == AsUsers(pending)
<1>1. /\ Types /\ messages \in Seq(Messages) /\ persisted \in Seq(Messages) /\ pending \in Seq(Texts)
      /\ messages' = messages \o x /\ persisted' = persisted \o x
      /\ lastAssistant' = lastAssistant /\ pc = "turn" /\ pc' = "request"
  BY DEF AInv, Types, TurnStep
<1>2. x \in Seq(Messages) /\ NoAnswers(x) /\ Len(x) = Len(pending)
  BY <1>1, UsersOf, NoAnswersAre
<1>3. x = <<>> => pending = <<>>
  BY <1>1, <1>2, EmptySeq
<1> HIDE DEF x
<1>4. Agrees' /\ Cut'
  BY <1>1, <1>2, GrowsTogether
<1>5. Tracked' /\ Paired(persisted')
  BY <1>1, <1>2, GrowsTracked DEF Idle
<1>6. Rests(persisted')
  <2>1. Rests(persisted) \/ x # <<>>
    BY <1>1, <1>3 DEF ResInv, FileTurns
  <2> QED
    BY <1>1, <1>2, <2>1, RestsOn
<1>7. FileTurns'
  BY <1>1, <1>5, <1>6 DEF FileTurns, Paired
<1>8. Sleeps'
  BY DEF ResInv, Sleeps
<1> QED
  BY <1>4, <1>5, <1>7, <1>8 DEF ResInv

LEMMA LoopResumes ==
  ASSUME AInv, ResInv, LoopStep
  PROVE  ResInv'
<1>1. SameCut /\ driver' = driver
  BY DEF LoopStep, SameCut
<1> QED
  BY <1>1, LoopStepIs, ToolStepResumes, AnswerStepResumes, PollStepResumes, TurnStepResumes
     DEF AInv, Placed

(* A run starts with the prompts ts, or behind a transcript that ends in none. *)
LEMMA StartResumes ==
  ASSUME AInv, ResInv, ~Settling, SameCut, NEW ts \in Seq(Texts), NEW skip,
         runAgentLoop(AsUsers(ts), skip), handleAgentEvent(NewMessages),
         ts # <<>> \/ (messages # <<>> /\ ~LastIsAssistant),
         NEW d \in Drivers, NEW r, driver' = [driver EXCEPT ![d] = r], r.phase = "running"
  PROVE  ResInv'
<1> DEFINE x == AsUsers(ts)
<1>1. Types /\ messages \in Seq(Messages) /\ persisted \in Seq(Messages) /\ Sleeps /\ Agrees /\ Cut
  BY DEF AInv, Types, ResInv
<1>2. /\ Idle /\ pc' = "poll" /\ messages' = messages \o x /\ persisted' = persisted \o x
      /\ lastAssistant' = lastAssistant
  BY <1>1, RunStarts
<1>3. x \in Seq(Messages) /\ NoAnswers(x) /\ Len(x) = Len(ts)
  BY UsersOf, NoAnswersAre
<1>4. x = <<>> => ts = <<>>
  BY <1>3, EmptySeq
<1> HIDE DEF x
<1>5. Agrees' /\ Cut'
  BY <1>1, <1>2, <1>3, GrowsTogether
<1>6. Tracked' /\ Paired(persisted')
  BY <1>1, <1>2, <1>3, GrowsTracked DEF Idle
<1>7. Rests(persisted')
  <2>1. Rests(persisted) \/ x # <<>>
    <3>1. CASE messages # <<>> /\ ~LastIsAssistant
      <4>1. ~EndsInAnswer(messages)
        BY <1>1, <3>1, LastApart DEF LastIsAssistant, EndsInAnswer
      <4> QED
        BY <1>1, <3>1, <4>1, OpenRests
    <3> QED
      BY <1>4, <3>1
  <2> QED
    BY <1>1, <1>2, <1>3, <2>1, RestsOn
<1>8. FileTurns'
  BY <1>2, <1>6, <1>7 DEF FileTurns, Paired
<1>9. Sleeps'
  BY <1>1, RecordChanges
<1> QED
  BY <1>5, <1>6, <1>8, <1>9 DEF ResInv

LEMMA SubmitResumes ==
  ASSUME AInv, ResInv, ~Settling, NEW d \in Drivers, driver[d].phase = "submit",
         prompt(<<User(driver[d].text)>>), handleAgentEvent(NewMessages),
         driver' = [driver EXCEPT ![d] = [NoDriver EXCEPT !.phase = "running"]], SameCut
  PROVE  ResInv'
<1> DEFINE t == driver[d].text
           ts == <<t>>
           r == [NoDriver EXCEPT !.phase = "running"]
<1>1. t \in Texts
  <2>1. driver[d] \in DriverRecords /\ HoldsText(driver[d])
    BY DEF AInv, Types
  <2> QED
    BY <2>1 DEF HoldsText, DriverRecords
<1>2. ts \in Seq(Texts) /\ ts # <<>> /\ <<User(t)>> = AsUsers(ts)
  BY <1>1, OneText
<1>3. r.phase = "running"
  BY NoDriverRecord, DriverRecord DEF Phases
<1>4. driver' = [driver EXCEPT ![d] = r] /\ runAgentLoop(<<User(t)>>, FALSE)
  BY DEF prompt
<1> HIDE DEF t, ts, r
<1>5. runAgentLoop(AsUsers(ts), FALSE)
  BY <1>2, <1>4
<1> QED
  BY <1>2, <1>3, <1>4, <1>5, StartResumes

LEMMA ResumeResumes ==
  ASSUME AInv, ResInv, ~Settling, NEW d \in Drivers, driver[d].phase = "resume",
         continue, handleAgentEvent(NewMessages),
         driver' = [driver EXCEPT ![d].phase = "running"], SameCut
  PROVE  ResInv'
<1> DEFINE r == [driver[d] EXCEPT !.phase = "running"]
<1>1. /\ driver[d] \in DriverRecords /\ steering \in Seq(Texts) /\ followUp \in Seq(Texts)
      /\ driver \in [Drivers -> DriverRecords]
  BY DEF AInv, Types
<1>2. r.phase = "running" /\ driver' = [driver EXCEPT ![d] = r]
  BY <1>1, DriverRecord DEF Phases
<1> HIDE DEF r
<1>3. messages # <<>> /\ ~continueRefused
  BY DEF continue, continueRefused
<1>4. CASE ~LastIsAssistant /\ runAgentLoop(<<>>, FALSE)
  <2>1. AsUsers(<<>>) = <<>> /\ <<>> \in Seq(Texts)
    BY UsersOf, EmptyQueue
  <2>2. runAgentLoop(AsUsers(<<>>), FALSE)
    BY <1>4, <2>1
  <2> QED
    BY <1>2, <1>3, <1>4, <2>1, <2>2, StartResumes
<1>5. CASE steering # <<>> /\ runAgentLoop(AsUsers(Drained(steering, SteeringMode)), TRUE)
  <2> DEFINE ts == Drained(steering, SteeringMode)
  <2>1. ts \in Seq(Texts) /\ ts # <<>> /\ runAgentLoop(AsUsers(ts), TRUE)
    BY <1>1, <1>5, SplitQueue
  <2> HIDE DEF ts
  <2> QED
    BY <1>2, <2>1, StartResumes
<1>6. CASE /\ LastIsAssistant /\ steering = <<>>
           /\ runAgentLoop(AsUsers(Drained(followUp, FollowUpMode)), FALSE)
  <2> DEFINE ts == Drained(followUp, FollowUpMode)
  <2>1. followUp # <<>>
    BY <1>3, <1>6 DEF continueRefused, hasQueuedMessages
  <2>2. ts \in Seq(Texts) /\ ts # <<>> /\ runAgentLoop(AsUsers(ts), FALSE)
    BY <1>1, <1>6, <2>1, SplitQueue
  <2> HIDE DEF ts
  <2> QED
    BY <1>2, <2>2, StartResumes
<1> QED
  BY <1>4, <1>5, <1>6 DEF continue

LEMMA SettlingResumes ==
  ASSUME AInv, ResInv, RunSettles
  PROVE  ResInv'
<1>1. /\ pc = "finish" /\ pc' = "idle" /\ driver \in [Drivers -> DriverRecords]
      /\ UNCHANGED <<messages, persisted, firstKept, compactedLen, lastAssistant>>
      /\ driver' = [e \in Drivers |-> IF driver[e].phase = "running"
                                      THEN [driver[e] EXCEPT !.phase = "post"]
                                      ELSE driver[e]]
  BY DEF RunSettles, finishRun, AInv, Types
<1>2. PICK d \in Drivers : driver[d].phase = "running"
  BY <1>1 DEF AInv, OneRun, isStreaming, Idle
<1>3. Settling'
  <2>1. driver'[d].phase = "post"
    BY <1>1, <1>2, DriverRecord DEF Phases
  <2> QED
    BY <2>1 DEF Settling
<1>4. Sleeps'
  <2>1. SUFFICES ASSUME NEW e \in Drivers, driver'[e].phase = "sleep"
                 PROVE  driver'[e].msg.stop = "retryable"
    BY DEF Sleeps
  <2>2. driver'[e] = driver[e]
    <3>1. CASE driver[e].phase = "running"
      <4>1. driver[e] \in DriverRecords
        BY <1>1
      <4>2. driver'[e].phase = "post"
        BY <1>1, <3>1, <4>1, DriverRecord DEF Phases
      <4> QED
        BY <2>1, <4>2
    <3>2. CASE driver[e].phase # "running"
      BY <1>1, <3>2
    <3> QED
      BY <3>1, <3>2
  <2> QED
    BY <2>1, <2>2 DEF ResInv, Sleeps
<1>5. Agrees' /\ Cut'
  BY <1>1 DEF ResInv, Agrees, Cut
<1>6. FileTurns'
  BY <1>1 DEF ResInv, FileTurns
<1>7. Tracked'
  BY <1>1, <1>3 DEF ResInv, Tracked
<1> QED
  BY <1>4, <1>5, <1>6, <1>7 DEF ResInv

-----------------------------------------------------------------------------

LEMMA SessionStartsEmpty == SessionInit => ResInv
<1> SUFFICES ASSUME SessionInit PROVE ResInv
  OBVIOUS
<1>1. /\ messages = <<>> /\ persisted = <<>> /\ pc = "idle" /\ compactedLen = 0
      /\ lastAssistant = None /\ driver = [d \in Drivers |-> NoDriver]
  BY DEF SessionInit, LoopInit
<1>2. Agrees /\ Cut /\ Tracked
  BY <1>1 DEF Agrees, Cut, Tracked, SourceAt
<1>3. FileTurns
  BY <1>1 DEF FileTurns
<1>4. Sleeps
  BY <1>1, NoDriverRecord DEF Sleeps
<1> QED
  BY <1>2, <1>3, <1>4 DEF ResInv

LEMMA SessionNextResumes ==
  ASSUME AInv, ResInv, [SessionNext]_agentVars
  PROVE  ResInv'
<1>1. CASE \/ \E d \in Drivers : handlePostAgentRun(d)
           \/ ~Settling /\ UserStep
           \/ UNCHANGED agentVars
  BY <1>1, MovesOutside, MovesKeep
<1>2. ASSUME ~Settling, NEW d \in Drivers, DriverStep(d) PROVE ResInv'
  <2>1. CASE retryDelayEnds(d) \/ compactionFails(d) \/ compactionSucceeds(d)
    BY <1>2, <2>1, MovesOutside, MovesKeep
  <2>2. CASE submit(d)
    <3>1. driver[d].phase = "submit"
      BY <2>2 DEF submit
    <3>2. CASE Throw(d)
      BY <1>2, <3>1, <3>2, MovesOutside, MovesKeep
    <3>3. CASE ~Throw(d)
      BY <1>2, <2>2, <3>3, SubmitResumes DEF submit, SameCut
    <3> QED
      BY <3>2, <3>3
  <2>3. CASE resume(d)
    <3>1. driver[d].phase = "resume"
      BY <2>3 DEF resume
    <3>2. CASE Throw(d)
      BY <1>2, <3>1, <3>2, MovesOutside, MovesKeep
    <3>3. CASE ~Throw(d)
      BY <1>2, <2>3, <3>3, ResumeResumes DEF resume, SameCut
    <3> QED
      BY <3>2, <3>3
  <2> QED
    BY <1>2, <2>1, <2>2, <2>3 DEF DriverStep
<1> QED
  BY <1>1, <1>2, LoopResumes, SettlingResumes DEF SessionNext

(* Opening the session file again gives the conversation the agent has: retries  *)
(* (stripLastAssistantFromAgent), compactions at any cut point, deferred shell    *)
(* results and overlapping calls of prompt() only ever take answers away that     *)
(* are dropped on both sides.                                                     *)
THEOREM ResumesTheSame == AgentSpec => []ResumeSeesSame
<1>1. AInv /\ ResInv => ResumeSeesSame
  BY DEF ResInv, Agrees, ResumeSeesSame, SourceAt, RebuiltFrom
<1>2. SessionInit => AInv /\ ResInv
  BY SessionStarts, SessionStartsEmpty
<1>3. (AInv /\ ResInv) /\ [SessionNext]_agentVars => (AInv /\ ResInv)'
  BY SessionNextKeeps, SessionNextResumes
<1> QED
  BY <1>1, <1>2, <1>3, PTL DEF AgentSpec

-----------------------------------------------------------------------------
(* Tool results come right after the answer that calls for them. *)

Turn(m) == IsAssistant(m) /\ m.stop \notin Failed

IsResult(m) == m.role = "toolResult"

(* ms[j] calls tools, and the first e results follow it. *)
Answering(ms, j, e) ==
  /\ Turn(ms[j]) /\ e <= ms[j].calls
  /\ \A k \in 1..e : ms[j + k] = ToolResult(ms[j].turn, k)

Grouped(ms) == \A i \in 1..Len(ms) : IsResult(ms[i]) => \E j \in 1..(i - 1) : Answering(ms, j, i - j)

(* The transcript ends in the turn t that calls c tools, and e of their results. *)
Opened(ms, e, t, c) ==
  /\ e \in 0..(Len(ms) - 1) /\ Answering(ms, Len(ms) - e, e)
  /\ ms[Len(ms) - e].turn = t /\ ms[Len(ms) - e].calls = c

LEMMA AnsweringSame ==
  ASSUME NEW ms, NEW ns, NEW j \in Nat, NEW e \in Nat, Answering(ms, j, e),
         \A i \in j..(j + e) : ns[i] = ms[i]
  PROVE  Answering(ns, j, e)
<1>1. j \in j..(j + e) /\ \A k \in 1..e : j + k \in j..(j + e)
  OBVIOUS
<1>2. ns[j] = ms[j] /\ \A k \in 1..e : ns[j + k] = ms[j + k]
  BY <1>1
<1> QED
  BY <1>2 DEF Answering

LEMMA GroupedStart ==
  ASSUME NEW p \in Seq(Messages), NEW q \in Seq(Messages), Grouped(p),
         NEW n \in Nat, n <= Len(p), n <= Len(q), \A i \in 1..n : q[i] = p[i],
         NEW i \in 1..n, IsResult(q[i])
  PROVE  \E j \in 1..(i - 1) : Answering(q, j, i - j)
<1>1. i \in 1..Len(p) /\ q[i] = p[i] /\ Len(p) \in Nat /\ i \in Nat
  OBVIOUS
<1>2. PICK j \in 1..(i - 1) : Answering(p, j, i - j)
  BY <1>1 DEF Grouped
<1>3. j \in Nat /\ i - j \in Nat /\ j + (i - j) = i /\ \A h \in j..i : h \in 1..n
  BY <1>1, <1>2
<1>4. \A h \in j..(j + (i - j)) : q[h] = p[h]
  BY <1>3
<1>5. Answering(q, j, i - j)
  BY <1>2, <1>3, <1>4, AnsweringSame
<1> QED
  BY <1>2, <1>5

LEMMA GroupedPrefix ==
  ASSUME NEW p \in Seq(Messages), NEW q \in Seq(Messages), Grouped(p),
         Len(q) <= Len(p), \A i \in 1..Len(q) : q[i] = p[i]
  PROVE  Grouped(q)
<1> DEFINE n == Len(q)
<1>1. n \in Nat /\ n <= Len(p) /\ n <= Len(q) /\ \A i \in 1..n : q[i] = p[i]
  BY LenProperties
<1> HIDE DEF n
<1>2. \A i \in 1..n : IsResult(q[i]) => \E j \in 1..(i - 1) : Answering(q, j, i - j)
  <2> SUFFICES ASSUME NEW i \in 1..n, IsResult(q[i])
               PROVE  \E j \in 1..(i - 1) : Answering(q, j, i - j)
    OBVIOUS
  <2> QED
    BY <1>1, GroupedStart
<1> QED
  BY <1>2 DEF Grouped, n

LEMMA GroupedLonger ==
  ASSUME NEW p \in Seq(Messages), NEW x \in Seq(Messages), Grouped(p),
         \A i \in 1..Len(x) : ~IsResult(x[i])
  PROVE  Grouped(p \o x)
<1> DEFINE n == Len(p)
           k == Len(x)
           c == p \o x
<1>1. /\ c \in Seq(Messages) /\ Len(c) = n + k /\ n \in Nat /\ k \in Nat
      /\ \A i \in 1..(n + k) : c[i] = IF i <= n THEN p[i] ELSE x[i - n]
  BY ConcatProperties, LenProperties
<1> HIDE DEF c
<1> SUFFICES ASSUME NEW i \in 1..Len(c), IsResult(c[i])
             PROVE  \E j \in 1..(i - 1) : Answering(c, j, i - j)
  BY DEF Grouped, c
<1>2. i \in 1..(n + k)
  BY <1>1
<1>3. i <= n
  <2>1. SUFFICES ASSUME ~(i <= n) PROVE FALSE
    BY <1>1, <1>2
  <2>2. i - n \in 1..k /\ c[i] = x[i - n]
    BY <1>1, <1>2, <2>1
  <2> QED
    BY <2>2
<1>4. n <= Len(p) /\ n <= Len(c) /\ i \in 1..n /\ \A h \in 1..n : c[h] = p[h]
  BY <1>1, <1>2, <1>3
<1> QED
  BY <1>1, <1>4, GroupedStart

(* The next results of the turn that is open. *)
LEMMA GroupedResults ==
  ASSUME NEW p \in Seq(Messages), NEW x \in Seq(Messages), Grouped(p),
         NEW e \in Nat, NEW f \in Nat, NEW t, NEW c \in Nat, Opened(p, e, t, c),
         e <= f, f <= c, Len(x) = f - e, \A i \in 1..(f - e) : x[i] = ToolResult(t, e + i)
  PROVE  Grouped(p \o x) /\ Opened(p \o x, f, t, c)
<1> DEFINE n == Len(p)
           k == Len(x)
           w == p \o x
           q == n - e
<1>1. /\ w \in Seq(Messages) /\ Len(w) = n + k /\ n \in Nat /\ k \in Nat
      /\ \A i \in 1..(n + k) : w[i] = IF i <= n THEN p[i] ELSE x[i - n]
  BY ConcatProperties, LenProperties
<1>2. e \in 0..(n - 1) /\ Answering(p, q, e) /\ p[q].turn = t /\ p[q].calls = c
  BY DEF Opened
<1>3. q \in 1..n /\ q + e = n /\ k = f - e /\ q + f = n + k
  BY <1>1, <1>2
<1> HIDE DEF w, n, k, q
<1>4. w[q] = p[q]
  BY <1>1, <1>3
<1>5. ASSUME NEW h \in 1..f PROVE w[q + h] = ToolResult(t, h)
  <2>1. CASE h <= e
    <3>1. h \in 1..e /\ q + h \in 1..(n + k) /\ q + h <= n
      BY <1>1, <1>3, <2>1
    <3>2. p[q + h] = ToolResult(t, h)
      BY <1>2, <3>1 DEF Answering
    <3> QED
      BY <1>1, <3>1, <3>2
  <2>2. CASE ~(h <= e)
    <3>1. q + h \in 1..(n + k) /\ ~(q + h <= n) /\ (q + h) - n = h - e /\ h - e \in 1..(f - e) /\ e + (h - e) = h
      BY <1>1, <1>3, <2>2
    <3>2. w[q + h] = x[h - e]
      BY <1>1, <3>1
    <3> QED
      BY <3>1, <3>2
  <2> QED
    BY <2>1, <2>2
<1>6. \A g \in 0..f : Answering(w, q, g)
  <2>1. Turn(w[q]) /\ w[q].turn = t /\ w[q].calls = c
    BY <1>2, <1>4 DEF Answering
  <2>2. ASSUME NEW g \in 0..f PROVE Answering(w, q, g)
    <3>1. g <= c /\ \A h \in 1..g : h \in 1..f
      OBVIOUS
    <3> QED
      BY <1>5, <2>1, <3>1 DEF Answering
  <2> QED
    BY <2>2
<1>7. Opened(w, f, t, c)
  <2>1. f \in 0..(Len(w) - 1) /\ Len(w) - f = q /\ f \in 0..f
    <3>1. Len(w) = n + k /\ n \in Nat /\ k \in Nat
      BY <1>1
    <3>2. q \in Nat /\ q > 0 /\ n + k = q + f
      BY <1>3, <3>1
    <3> QED
      BY <3>1, <3>2
  <2> QED
    BY <1>2, <1>4, <1>6, <2>1 DEF Opened
<1>8. Grouped(w)
  <2> SUFFICES ASSUME NEW i \in 1..Len(w), IsResult(w[i])
               PROVE  \E j \in 1..(i - 1) : Answering(w, j, i - j)
    BY DEF Grouped
  <2>1. i \in 1..(n + k)
    BY <1>1
  <2>2. CASE i <= n
    <3>1. n <= Len(p) /\ n <= Len(w) /\ i \in 1..n /\ \A h \in 1..n : w[h] = p[h] /\ n \in Nat
      BY <1>1, <2>1, <2>2 DEF n
    <3> QED
      BY <1>1, <3>1, GroupedStart
  <2>3. CASE ~(i <= n)
    <3>1. q \in 1..(i - 1) /\ i - q \in 0..f
      BY <1>1, <1>3, <2>1, <2>3
    <3> QED
      BY <1>6, <3>1
  <2> QED
    BY <2>2, <2>3
<1> QED
  BY <1>7, <1>8 DEF w

(* What a compaction keeps does not begin inside a group. *)
LEMMA GroupedRebuilt ==
  ASSUME persisted \in Seq(Messages), Grouped(persisted), NEW k \in 1..Len(persisted),
         ~IsResult(persisted[k])
  PROVE  Grouped(RebuiltFrom(k))
<1> DEFINE n == Len(persisted)
           r == RebuiltFrom(k)
<1>1. /\ r \in Seq(Messages) /\ Len(r) = n - k + 2 /\ r[1] = Summary /\ n \in Nat \ {0}
      /\ \A i \in k..n : r[i - k + 2] = persisted[i]
  BY RebuiltEnds
<1> HIDE DEF r
<1> SUFFICES ASSUME NEW i \in 1..Len(r), IsResult(r[i])
             PROVE  \E j \in 1..(i - 1) : Answering(r, j, i - j)
  BY DEF Grouped, r
<1>2. i # 1
  BY <1>1, RolesOf DEF IsResult
<1> DEFINE g == i + k - 2
<1>3. g \in k..n /\ g \in 1..n /\ g - k + 2 = i /\ k \in 1..n
  <2>1. k \in 1..n
    OBVIOUS
  <2> HIDE DEF n
  <2>2. i \in 1..(n - k + 2) /\ n \in Nat
    BY <1>1
  <2>3. i \in Int /\ k \in Int /\ 2 <= i /\ i <= n - k + 2 /\ 1 <= k /\ k <= n
    BY <1>2, <2>1, <2>2
  <2>4. g = i + k - 2
    OBVIOUS
  <2> HIDE DEF g
  <2>5. g \in Int /\ k <= g /\ g <= n /\ 1 <= g /\ g - k + 2 = i
    BY <2>2, <2>3, <2>4
  <2> QED
    BY <2>1, <2>2, <2>3, <2>5
<1>4. r[i] = persisted[g]
  BY <1>1, <1>3
<1>5. PICK j \in 1..(g - 1) : Answering(persisted, j, g - j)
  BY <1>3, <1>4 DEF Grouped
<1>6. j >= k
  <2>1. SUFFICES ASSUME j < k PROVE FALSE
    BY <1>3, <1>5
  <2>2. k - j \in 1..(g - j) /\ j + (k - j) = k
    BY <1>3, <1>5, <2>1
  <2>3. persisted[k] = ToolResult(persisted[j].turn, k - j)
    BY <1>5, <2>2 DEF Answering
  <2> QED
    BY <2>3 DEF IsResult, ToolResult
<1> DEFINE h == j - k + 2
<1>7. h \in 1..(i - 1) /\ i - h = g - j /\ j \in k..n
  BY <1>1, <1>3, <1>5, <1>6
<1>8. r[h] = persisted[j]
  BY <1>1, <1>7
<1>9. \A a \in 1..(g - j) : r[h + a] = persisted[j + a]
  <2>1. SUFFICES ASSUME NEW a \in 1..(g - j) PROVE r[h + a] = persisted[j + a]
    OBVIOUS
  <2>2. j + a \in k..n /\ (j + a) - k + 2 = h + a
    BY <1>3, <1>5, <1>6
  <2> QED
    BY <1>1, <2>2
<1> HIDE DEF g, h
<1>10. Answering(r, h, i - h)
  BY <1>5, <1>7, <1>8, <1>9 DEF Answering
<1> QED
  BY <1>7, <1>10

(* How many results of the running batch are in the transcript by now. *)
Emitted ==
  IF batch.mode = "parallel" /\ pc # "results" THEN 0
  ELSE IF pc = "execute" THEN batch.started - 1 ELSE batch.started

InBatch == {"preflight", "execute", "results"}

BatchOpen ==
  /\ Opened(messages, Emitted, turns, batch.calls)
  /\ Opened(persisted, Emitted, turns, batch.calls)
  /\ Opened(context, 0, turns, batch.calls)
  /\ batch.started <= batch.calls

Transcripts == context \in Seq(Messages) /\ Grouped(messages) /\ Grouped(persisted) /\ Grouped(context)

Groups ==
  /\ Transcripts
  /\ pc \in InBatch => BatchOpen
  /\ pc = "execute" => batch.started > 0
  /\ batch.mode \in {"sequential", "parallel"}

GroupInv == ~overlapped => Groups

LEMMA NoResults ==
  /\ \A m \in Messages : IsResult(m) => m \notin UserMessages /\ m \notin AnswerMessages
  /\ ~IsResult(Bash) /\ ~IsResult(Summary)
  /\ \A n \in Nat : \A i \in 1..Len(BashMessages(n)) : ~IsResult(BashMessages(n)[i])
  /\ \A ts \in Seq(Texts) : \A i \in 1..Len(AsUsers(ts)) : ~IsResult(AsUsers(ts)[i])
  /\ \A m \in AnswerMessages : ~IsResult(m)
<1>1. ~IsResult(Bash) /\ ~IsResult(Summary)
  BY RolesOf DEF IsResult
<1>2. \A m \in AnswerMessages \cup UserMessages : ~IsResult(m)
  BY RolesOf DEF IsResult
<1>3. \A n \in Nat : \A i \in 1..Len(BashMessages(n)) : ~IsResult(BashMessages(n)[i])
  BY <1>1, BashAre
<1>4. \A ts \in Seq(Texts) : \A i \in 1..Len(AsUsers(ts)) : ~IsResult(AsUsers(ts)[i])
  BY <1>2, UsersOf
<1> QED
  BY <1>1, <1>2, <1>3, <1>4

(* A transcript the batch of the turn is still open in. *)
LEMMA OpenedAgain ==
  ASSUME NEW p \in Seq(Messages), NEW m \in AnswerMessages, Turn(m), Grouped(p)
  PROVE  Opened(p \o <<m>>, 0, m.turn, m.calls)
<1> DEFINE x == <<m>>
           w == p \o x
<1>1. m \in Messages /\ m.calls \in Nat
  BY DEF Messages, AnswerMessages
<1>2. x \in Seq(Messages) /\ Len(x) = 1 /\ x[1] = m /\ x # <<>>
  BY <1>1, OneMessage
<1> HIDE DEF x
<1>3. Len(w) = Len(p) + 1 /\ Len(p) \in Nat /\ w[Len(w)] = m
  BY <1>2, Longer
<1> HIDE DEF w
<1>4. 0 \in 0..(Len(w) - 1) /\ Len(w) - 0 = Len(w)
  BY <1>3
<1>5. Answering(w, Len(w), 0)
  BY <1>1, <1>3 DEF Answering
<1> QED
  BY <1>3, <1>4, <1>5 DEF Opened, w, x

(* Results of the tools, in the order of the calls. *)
LEMMA ResultsOf ==
  ASSUME NEW from \in Nat \ {0}, NEW to \in Nat, turns \in Nat, to >= from - 1
  PROVE  \A i \in 1..(to - (from - 1)) : Results(from, to)[i] = ToolResult(turns, (from - 1) + i)
<1> DEFINE k == to - from + 1
<1>1. k \in Nat /\ k = to - (from - 1)
  OBVIOUS
<1>2. Results(from, to) = [i \in 1..k |-> ToolResult(turns, from + i - 1)]
  BY DEF Results
<1>3. \A i \in 1..k : from + i - 1 = (from - 1) + i
  OBVIOUS
<1> HIDE DEF k
<1>4. \A i \in 1..k : Results(from, to)[i] = ToolResult(turns, from + i - 1)
  BY <1>2
<1> QED
  BY <1>1, <1>3, <1>4

(* The results that follow in each of the transcripts. *)
LEMMA OpenedResults ==
  ASSUME turns \in Nat, NEW c \in Nat, NEW n \in Nat, n <= c, NEW k \in Nat \ {0}, k - 1 <= n,
         NEW p \in Seq(Messages), Grouped(p), Opened(p, k - 1, turns, c)
  PROVE  Grouped(p \o Results(k, n)) /\ Opened(p \o Results(k, n), n, turns, c)
<1> DEFINE x == Results(k, n)
           e == k - 1
<1>1. x \in Seq(Messages) /\ Len(x) = n - k + 1 /\ n - k + 1 = n - e /\ e \in Nat /\ e <= n
  <2>1. n >= k - 1 /\ n - k + 1 = n - e /\ e \in Nat /\ e <= n
    OBVIOUS
  <2>2. x \in Seq(Messages) /\ Len(x) = n - k + 1
    BY <2>1, ResultsAre
  <2> QED
    BY <2>1, <2>2
<1>2. \A i \in 1..(n - e) : x[i] = ToolResult(turns, e + i)
  BY ResultsOf
<1>3. Opened(p, e, turns, c)
  OBVIOUS
<1> HIDE DEF x, e
<1>4. Grouped(p \o x) /\ Opened(p \o x, n, turns, c)
  BY <1>1, <1>2, <1>3, GroupedResults
<1> QED
  BY <1>4 DEF x

LEMMA StrippedGroups ==
  ASSUME NEW r \in Seq(Messages), Grouped(r)
  PROVE  Stripped(r) \in Seq(Messages) /\ Grouped(Stripped(r))
<1>1. CASE r # <<>> /\ IsAssistant(Last(r))
  <2> DEFINE f == Front(r)
  <2>1. f \in Seq(Messages) /\ Len(f) = Len(r) - 1 /\ \A i \in 1..(Len(r) - 1) : f[i] = r[i]
    BY <1>1, LastApart
  <2>2. Stripped(r) = f
    BY <1>1 DEF Stripped
  <2> HIDE DEF f
  <2>3. Len(f) <= Len(r) /\ \A i \in 1..Len(f) : f[i] = r[i]
    BY <2>1
  <2> QED
    BY <2>1, <2>2, <2>3, GroupedPrefix
<1>2. CASE ~(r # <<>> /\ IsAssistant(Last(r)))
  BY <1>2 DEF Stripped
<1> QED
  BY <1>1, <1>2

-----------------------------------------------------------------------------
(* Steps outside the loop. *)

LEMMA MovesGroup ==
  ASSUME AInv, GroupInv, NEW b, NEW n, Moves(b, n)
  PROVE  GroupInv'
<1> SUFFICES ASSUME ~overlapped' PROVE Groups'
  BY DEF GroupInv
<1>1. Groups /\ messages \in Seq(Messages) /\ persisted \in Seq(Messages) /\ lastAssistant' \in {lastAssistant, None}
  BY DEF GroupInv, Moves, AInv, Types
<1>2. /\ n \in Nat /\ Based(b) /\ UNCHANGED <<pc, batch, turns, context>>
      /\ messages' = b \o BashMessages(n) /\ persisted' = persisted \o BashMessages(n)
  BY DEF Moves
<1> DEFINE x == BashMessages(n)
<1>3. x \in Seq(Messages) /\ Len(x) = n /\ \A i \in 1..Len(x) : ~IsResult(x[i])
  BY <1>2, BashAre, NoResults
<1>4. messages' = b \o x /\ persisted' = persisted \o x
  BY <1>2
<1> HIDE DEF x
<1>5. CASE isStreaming
  <2>1. b = messages /\ n = 0
    BY <1>5 DEF Moves
  <2>2. x = <<>>
    BY <1>3, <2>1, EmptySeq
  <2>3. messages' = messages /\ persisted' = persisted
    BY <1>1, <1>3, <1>4, <2>1, <2>2, Longer
  <2> QED
    BY <1>1, <1>2, <2>3 DEF Groups, Transcripts, BatchOpen, Emitted
<1>6. CASE ~isStreaming
  <2>1. pc' = "idle"
    BY <1>2, <1>6 DEF isStreaming, Idle
  <2>2. b \in Seq(Messages) /\ Grouped(b)
    <3>1. Grouped(messages) /\ Grouped(persisted)
      BY <1>1 DEF Groups, Transcripts
    <3>2. ASSUME NEW r \in Seq(Messages), Grouped(r)
          PROVE  Stripped(r) \in Seq(Messages) /\ Grouped(Stripped(r))
      BY <3>2, StrippedGroups
    <3>3. ASSUME Rebuilding PROVE RebuiltFrom(firstKept') \in Seq(Messages) /\ Grouped(RebuiltFrom(firstKept'))
      <4> DEFINE k == firstKept'
      <4>1. k \in 1..Len(persisted) /\ ~IsResult(persisted[k])
        BY <3>3 DEF Rebuilding, IsResult
      <4> HIDE DEF k
      <4>2. Grouped(RebuiltFrom(k)) /\ RebuiltFrom(k) \in Seq(Messages)
        BY <1>1, <3>1, <4>1, GroupedRebuilt, RebuiltEnds
      <4> QED
        BY <4>2 DEF k
    <3> QED
      BY <1>1, <1>2, <3>1, <3>2, <3>3 DEF Based
  <2>3. Grouped(messages') /\ Grouped(persisted')
    <3>1. Grouped(persisted)
      BY <1>1 DEF Groups, Transcripts
    <3> QED
      BY <1>1, <1>3, <1>4, <2>2, <3>1, GroupedLonger
  <2> QED
    BY <1>1, <1>2, <2>1, <2>3 DEF Groups, Transcripts, InBatch
<1> QED
  BY <1>5, <1>6

-----------------------------------------------------------------------------
(* The steps of the loop. *)

(* What a step adds to the transcript it adds to the file. *)
LEMMA StoredAlike ==
  ASSUME Types, NEW x \in Seq(Messages), messages' = messages \o x, handleAgentEvent(NewMessages)
  PROVE  persisted' = persisted \o x
<1>1. NewMessages = x
  BY NewMessagesAre DEF Types
<1> QED
  BY <1>1 DEF handleAgentEvent

LEMMA StoredSame ==
  ASSUME Types, messages' = messages, handleAgentEvent(NewMessages)
  PROVE  persisted' = persisted
<1>1. /\ <<>> \in Seq(Messages) /\ messages \in Seq(Messages) /\ persisted \in Seq(Messages)
      /\ messages \o <<>> = messages /\ persisted \o <<>> = persisted
  BY ConcatEmptySeq DEF Types
<1> QED
  BY <1>1, StoredAlike

(* Outside a batch only the grouping counts. *)
LEMMA GroupsOutside ==
  ASSUME Transcripts', pc' \notin InBatch, batch'.mode \in {"sequential", "parallel"}
  PROVE  Groups'
BY DEF Groups, InBatch

(* All three transcripts grow by messages that are no results. *)
LEMMA TranscriptsGrow ==
  ASSUME Types, Transcripts, NEW x \in Seq(Messages), \A i \in 1..Len(x) : ~IsResult(x[i]),
         messages' = messages \o x, persisted' = persisted \o x,
         context' \in {context, context \o x, messages'}
  PROVE  Transcripts'
<1>1. /\ messages \in Seq(Messages) /\ persisted \in Seq(Messages) /\ context \in Seq(Messages)
      /\ Grouped(messages) /\ Grouped(persisted) /\ Grouped(context)
  BY DEF Types, Transcripts
<1>2. Grouped(messages \o x) /\ Grouped(persisted \o x) /\ Grouped(context \o x)
  BY <1>1, GroupedLonger
<1>3. context \o x \in Seq(Messages) /\ messages \o x \in Seq(Messages)
  BY <1>1, Longer
<1>4. Grouped(context') /\ context' \in Seq(Messages)
  BY <1>1, <1>2, <1>3
<1> QED
  BY <1>2, <1>4 DEF Transcripts

LEMMA PreparingGroups ==
  ASSUME Types, Groups, prepareToolCall, handleAgentEvent(NewMessages)
  PROVE  Groups'
<1>1. /\ pc = "preflight" /\ batch.started < batch.calls /\ messages' = messages /\ persisted' = persisted
      /\ context' = context /\ turns' = turns /\ pc' \in {"preflight", "execute"}
      /\ pc' = "preflight" => batch.mode = "parallel"
  BY StoredSame DEF prepareToolCall
<1>2. PICK outcome : batch' = [batch EXCEPT !.started = @ + 1,
                                            !.status[batch.started + 1] = outcome]
  BY DEF prepareToolCall
<1>3. /\ DOMAIN batch = {"mode", "calls", "started", "status"}
      /\ batch.started \in Nat /\ batch.calls \in Nat
  BY DEF Types
<1>4. batch'.mode = batch.mode /\ batch'.calls = batch.calls /\ batch'.started = batch.started + 1
  BY <1>2, <1>3
<1>5. batch'.started <= batch'.calls /\ batch'.started > 0
  BY <1>1, <1>3, <1>4
<1>6. Emitted' = Emitted
  BY <1>1, <1>3, <1>4 DEF Emitted, Groups
<1>7. BatchOpen
  BY <1>1 DEF Groups, InBatch
<1>8. BatchOpen'
  BY <1>1, <1>4, <1>5, <1>6, <1>7 DEF BatchOpen
<1> QED
  BY <1>1, <1>4, <1>5, <1>8 DEF Groups, Transcripts

LEMMA FinishingGroups ==
  ASSUME Types, Groups, finalizeExecutedToolCall, handleAgentEvent(NewMessages)
  PROVE  Groups'
<1>1. /\ messages' = messages /\ persisted' = persisted
      /\ context' = context /\ turns' = turns /\ pc' = pc
  BY StoredSame DEF finalizeExecutedToolCall
<1>2. PICK k, outcome : batch' = [batch EXCEPT !.status[k] = outcome]
  BY DEF finalizeExecutedToolCall
<1>3. DOMAIN batch = {"mode", "calls", "started", "status"}
  BY DEF Types
<1>4. batch'.mode = batch.mode /\ batch'.calls = batch.calls /\ batch'.started = batch.started
  BY <1>2, <1>3
<1> QED
  BY <1>1, <1>4 DEF Groups, Transcripts, BatchOpen, Emitted

(* The results from k on are emitted: the transcript and the file grow alike. *)
LEMMA EmittingGroups ==
  ASSUME Types, Groups, pc \in InBatch, NEW k \in Nat \ {0}, Emitted = k - 1, k - 1 <= batch.started,
         messages' = messages \o Results(k, batch.started), handleAgentEvent(NewMessages),
         UNCHANGED <<context, batch, turns>>, pc' \in InBatch, pc' # "execute",
         Emitted' = batch.started
  PROVE  Groups'
<1> DEFINE n == batch.started
           c == batch.calls
           x == Results(k, n)
<1>1. /\ messages \in Seq(Messages) /\ persisted \in Seq(Messages) /\ turns \in Nat
      /\ n \in Nat /\ c \in Nat /\ Transcripts /\ batch.mode \in {"sequential", "parallel"}
  BY DEF Types, Groups
<1>2. /\ Opened(messages, k - 1, turns, c) /\ Opened(persisted, k - 1, turns, c)
      /\ Opened(context, 0, turns, c) /\ n <= c
  BY DEF Groups, BatchOpen
<1>3. x \in Seq(Messages)
  <2>1. n >= k - 1
    BY <1>1
  <2> QED
    BY <1>1, <2>1, ResultsAre
<1>4. messages' = messages \o x /\ persisted' = persisted \o x
  BY <1>3, StoredAlike
<1>5. /\ Grouped(messages \o x) /\ Opened(messages \o x, n, turns, c)
      /\ Grouped(persisted \o x) /\ Opened(persisted \o x, n, turns, c)
  <2>1. Grouped(messages) /\ Grouped(persisted) /\ k - 1 <= n
    BY <1>1 DEF Transcripts
  <2> HIDE DEF n, c
  <2> QED
    BY <1>1, <1>2, <2>1, OpenedResults
<1> HIDE DEF x
<1>6. Transcripts'
  BY <1>1, <1>4, <1>5 DEF Transcripts
<1>7. BatchOpen'
  BY <1>2, <1>4, <1>5 DEF BatchOpen
<1> QED
  BY <1>1, <1>6, <1>7 DEF Groups

LEMMA SequentialGroups ==
  ASSUME Types, Groups, emitSequentialResult, handleAgentEvent(NewMessages)
  PROVE  Groups'
<1>1. /\ pc = "execute" /\ batch.mode = "sequential" /\ pc' \in {"preflight", "results"}
      /\ messages' = messages \o Results(batch.started, batch.started)
      /\ UNCHANGED <<context, batch, turns>>
  BY DEF emitSequentialResult
<1>2. batch.started \in Nat \ {0}
  BY <1>1 DEF Groups, Types
<1>3. Emitted = batch.started - 1 /\ Emitted' = batch.started
  BY <1>1 DEF Emitted
<1>4. pc \in InBatch /\ pc' \in InBatch /\ pc' # "execute"
  BY <1>1 DEF InBatch
<1>5. batch.started - 1 <= batch.started
  BY <1>2
<1> QED
  BY <1>1, <1>2, <1>3, <1>4, <1>5, EmittingGroups

LEMMA ParallelGroups ==
  ASSUME Types, Groups, emitParallelResults, handleAgentEvent(NewMessages)
  PROVE  Groups'
<1>1. /\ pc = "execute" /\ batch.mode = "parallel" /\ pc' = "results"
      /\ messages' = messages \o Results(1, batch.started)
      /\ UNCHANGED <<context, batch, turns>>
  BY DEF emitParallelResults
<1>2. batch.started \in Nat /\ 1 \in Nat \ {0} /\ 1 - 1 = 0
  BY DEF Types
<1>3. Emitted = 0 /\ Emitted' = batch.started
  BY <1>1 DEF Emitted
<1>4. pc \in InBatch /\ pc' \in InBatch /\ pc' # "execute"
  BY <1>1 DEF InBatch
<1>5. Emitted = 1 - 1 /\ 1 - 1 <= batch.started
  BY <1>2, <1>3
<1> QED
  BY <1>1, <1>2, <1>3, <1>4, <1>5, EmittingGroups

(* The results join the context of the run. *)
LEMMA JoiningGroups ==
  ASSUME Types, Groups, processToolCallsAndResults, handleAgentEvent(NewMessages)
  PROVE  Groups'
<1> DEFINE n == batch.started
           c == batch.calls
           x == Results(1, n)
<1>1. /\ pc = "results" /\ pc' = "turnEnd" /\ context' = context \o x
      /\ messages' = messages /\ persisted' = persisted /\ batch' = batch
  BY StoredSame DEF processToolCallsAndResults
<1>2. /\ turns \in Nat /\ n \in Nat /\ c \in Nat /\ batch.mode \in {"sequential", "parallel"}
      /\ Grouped(messages) /\ Grouped(persisted) /\ Grouped(context) /\ context \in Seq(Messages)
  BY DEF Types, Groups, Transcripts
<1>3. Opened(context, 0, turns, c) /\ n <= c
  BY <1>1 DEF Groups, InBatch, BatchOpen
<1>4. 1 \in Nat \ {0} /\ 1 - 1 = 0 /\ 0 <= n /\ n >= 1 - 1
  BY <1>2
<1>5. x \in Seq(Messages)
  BY <1>2, <1>4, ResultsAre
<1>6. Grouped(context \o x)
  <2> HIDE DEF n, c
  <2>1. Opened(context, 1 - 1, turns, c) /\ 1 - 1 <= n
    BY <1>3, <1>4
  <2> QED
    BY <1>2, <1>3, <1>4, <2>1, OpenedResults
<1>7. context \o x \in Seq(Messages)
  BY <1>2, <1>5, Longer
<1>8. Transcripts'
  BY <1>1, <1>2, <1>6, <1>7 DEF Transcripts
<1> QED
  BY <1>1, <1>2, <1>8, GroupsOutside DEF InBatch

LEMMA AnswerGroups ==
  ASSUME Types, Groups, streamAssistantResponse, handleAgentEvent(NewMessages)
  PROVE  Groups'
<1>1. PICK a \in Answers :
         LET m == Assistant(turns + 1, a[1], a[2]) IN
         /\ messages' = Append(messages, m)
         /\ context' = Append(context, m)
         /\ pc' = CASE a[1] \in Failed -> "finish"
                    [] a[2] > 0 -> "preflight"
                    [] OTHER -> "turnEnd"
         /\ \E mode \in IF a[2] > 0 THEN {"sequential", "parallel"} ELSE {"parallel"} :
              batch' = [mode |-> mode, calls |-> a[2], started |-> 0,
                        status |-> [k \in 1..a[2] |-> "none"]]
  BY DEF streamAssistantResponse
<1> DEFINE m == Assistant(turns + 1, a[1], a[2])
           x == <<m>>
<1>2. a[1] \in Failed \cup Successes /\ a[2] \in Nat
  BY <1>1, BoundAssumption DEF Answers, Failed, Errors, Successes
<1>3. /\ messages \in Seq(Messages) /\ persisted \in Seq(Messages) /\ turns \in Nat
      /\ context \in Seq(Messages) /\ Grouped(messages) /\ Grouped(persisted) /\ Grouped(context)
  BY DEF Types, Groups, Transcripts
<1>4. m \in AnswerMessages /\ m.stop = a[1] /\ m.turn = turns + 1 /\ m.calls = a[2]
  BY <1>2, <1>3 DEF Assistant, AnswerMessages
<1>5. m \in Messages /\ ~IsResult(m) /\ IsAssistant(m)
  BY <1>4, NoResults, RolesOf DEF Messages, IsAssistant
<1>6. messages' = Append(messages, m) /\ context' = Append(context, m)
  BY <1>1
<1>7. pc' \in {"finish", "preflight", "turnEnd"} /\ (pc' = "preflight" => a[1] \notin Failed)
  <2> DEFINE s == a[1]
             many == a[2] > 0
  <2>1. pc' = CASE s \in Failed -> "finish" [] many -> "preflight" [] OTHER -> "turnEnd"
    BY <1>1
  <2>2. ~(s \in Failed /\ many)
    BY BoundAssumption DEF Answers, Failed, Errors, Successes
  <2> HIDE DEF s, many
  <2>3. CASE s \in Failed
    BY <2>1, <2>2, <2>3 DEF s
  <2>4. CASE s \notin Failed
    BY <2>1, <2>4 DEF s
  <2> QED
    BY <2>3, <2>4
<1>8. turns' = turns + 1
  BY DEF streamAssistantResponse
<1>9. /\ batch'.mode \in {"sequential", "parallel"} /\ batch'.calls = a[2] /\ batch'.started = 0
  <2> DEFINE status == [k \in 1..a[2] |-> "none"]
             count == a[2]
  <2>1. PICK mode \in {"sequential", "parallel"} :
           batch' = [mode |-> mode, calls |-> count, started |-> 0, status |-> status]
    BY <1>1
  <2> HIDE DEF status, count
  <2>2. batch'.mode = mode /\ batch'.calls = count /\ batch'.started = 0
    BY <2>1
  <2> QED
    BY <2>2 DEF count
<1> HIDE DEF m
<1>10. /\ x \in Seq(Messages) /\ messages' = messages \o x /\ context' = context \o x
       /\ \A i \in 1..Len(x) : ~IsResult(x[i])
  BY <1>3, <1>5, <1>6, OneMessage
<1>11. persisted' = persisted \o x
  BY <1>10, StoredAlike
<1>12. Transcripts'
  <2> HIDE DEF x
  <2> QED
    BY <1>10, <1>11, TranscriptsGrow DEF Groups
<1>13. CASE pc' = "preflight"
  <2>1. Turn(m)
    BY <1>4, <1>5, <1>7, <1>13 DEF Turn
  <2>2. /\ Opened(messages \o x, 0, m.turn, m.calls) /\ Opened(persisted \o x, 0, m.turn, m.calls)
        /\ Opened(context \o x, 0, m.turn, m.calls)
    BY <1>3, <1>4, <2>1, OpenedAgain
  <2>3. Emitted' = 0
    BY <1>9, <1>13 DEF Emitted
  <2>4. batch'.started <= batch'.calls
    BY <1>2, <1>9
  <2>5. turns' = m.turn /\ batch'.calls = m.calls
    BY <1>4, <1>8, <1>9
  <2> HIDE DEF x
  <2>6. BatchOpen'
    BY <1>10, <1>11, <2>2, <2>3, <2>4, <2>5 DEF BatchOpen
  <2> QED
    BY <1>9, <1>12, <1>13, <2>6 DEF Groups
<1>14. CASE pc' # "preflight"
  BY <1>7, <1>9, <1>12, <1>14, GroupsOutside DEF InBatch
<1> QED
  BY <1>13, <1>14

LEMMA FailureGroups ==
  ASSUME Types, Groups, handleRunFailure, handleAgentEvent(NewMessages)
  PROVE  Groups'
<1> DEFINE m == Assistant(turns + 1, IF aborted THEN "aborted" ELSE "fatal", 0)
           x == <<m>>
<1>1. /\ messages' = Append(messages, m) /\ pc' = "finish" /\ context' = context /\ batch' = batch
  BY DEF handleRunFailure
<1>2. messages \in Seq(Messages) /\ turns \in Nat /\ Transcripts /\ batch.mode \in {"sequential", "parallel"}
  BY DEF Types, Groups
<1>3. m \in AnswerMessages
  BY <1>2 DEF Assistant, AnswerMessages, Failed, Errors
<1> HIDE DEF m
<1>4. m \in Messages /\ ~IsResult(m)
  BY <1>3, NoResults DEF Messages
<1>5. /\ x \in Seq(Messages) /\ messages' = messages \o x
      /\ \A i \in 1..Len(x) : ~IsResult(x[i])
  BY <1>1, <1>2, <1>4, OneMessage
<1> HIDE DEF x
<1>6. persisted' = persisted \o x
  BY <1>5, StoredAlike
<1>7. Transcripts'
  BY <1>1, <1>2, <1>5, <1>6, TranscriptsGrow
<1> QED
  BY <1>1, <1>2, <1>7, GroupsOutside DEF InBatch

LEMMA PollingGroups ==
  ASSUME Types, Groups, createRunLoopState \/ endTurn \/ pollFollowUps, handleAgentEvent(NewMessages)
  PROVE  Groups'
<1>1. /\ messages' = messages /\ persisted' = persisted /\ context' = context
      /\ batch' \in {batch, NoBatch} /\ pc' \in {"turn", "followUps", "finish"}
  BY StoredSame DEF createRunLoopState, endTurn, pollFollowUps
<1>2. Transcripts'
  BY <1>1 DEF Groups, Transcripts
<1>3. batch'.mode \in {"sequential", "parallel"}
  BY <1>1 DEF Groups, NoBatch
<1> QED
  BY <1>1, <1>2, <1>3, GroupsOutside DEF InBatch

LEMMA DeliveringGroups ==
  ASSUME Types, Groups, startTurn, handleAgentEvent(NewMessages)
  PROVE  Groups'
<1> DEFINE x == AsUsers(pending)
<1>1. /\ messages' = messages \o x /\ context' = context \o x /\ pc' = "request" /\ batch' = batch
  BY DEF startTurn
<1>2. x \in Seq(Messages) /\ \A i \in 1..Len(x) : ~IsResult(x[i])
  BY UsersOf, NoResults DEF Types
<1> HIDE DEF x
<1>3. persisted' = persisted \o x
  BY <1>1, <1>2, StoredAlike
<1>4. Transcripts'
  BY <1>1, <1>2, <1>3, TranscriptsGrow DEF Groups
<1> QED
  BY <1>1, <1>4, GroupsOutside DEF InBatch, Groups

LEMMA LoopGroups ==
  ASSUME AInv, GroupInv, LoopStep
  PROVE  GroupInv'
<1>1. overlapped' = overlapped /\ handleAgentEvent(NewMessages) /\ Types
  BY DEF LoopStep, AInv
<1> SUFFICES ASSUME ~overlapped PROVE Groups'
  BY <1>1 DEF GroupInv
<1>2. Groups
  BY DEF GroupInv
<1> QED
  BY <1>1, <1>2, PollingGroups, DeliveringGroups, AnswerGroups, FailureGroups, PreparingGroups,
     FinishingGroups, SequentialGroups, ParallelGroups, JoiningGroups DEF LoopStep

(* A run starts on a copy of the transcript. *)
LEMMA StartGroups ==
  ASSUME AInv, GroupInv, overlapped' = overlapped, NEW ts \in Seq(Texts), NEW skip,
         runAgentLoop(AsUsers(ts), skip), handleAgentEvent(NewMessages)
  PROVE  GroupInv'
<1> DEFINE x == AsUsers(ts)
<1> SUFFICES ASSUME ~overlapped PROVE Groups'
  BY DEF GroupInv
<1>1. /\ messages' = messages \o x /\ context' = messages' /\ pc' = "poll" /\ batch' = batch
  BY DEF runAgentLoop
<1>2. Groups /\ Types /\ x \in Seq(Messages) /\ \A i \in 1..Len(x) : ~IsResult(x[i])
  BY UsersOf, NoResults DEF AInv, GroupInv
<1> HIDE DEF x
<1>3. persisted' = persisted \o x
  BY <1>1, <1>2, StoredAlike
<1>4. Transcripts'
  BY <1>1, <1>2, <1>3, TranscriptsGrow DEF Groups
<1> QED
  BY <1>1, <1>2, <1>4, GroupsOutside DEF InBatch, Groups

LEMMA SettlingGroups ==
  ASSUME AInv, GroupInv, RunSettles
  PROVE  GroupInv'
<1>1. /\ UNCHANGED <<messages, persisted, overlapped>> /\ context' = <<>> /\ pc' = "idle"
      /\ batch' = NoBatch
  BY DEF RunSettles, finishRun
<1> SUFFICES ASSUME ~overlapped PROVE Groups'
  BY <1>1 DEF GroupInv
<1>2. <<>> \in Seq(Messages) /\ Len(<<>>) = 0
  OBVIOUS
<1>3. Grouped(<<>>)
  BY <1>2 DEF Grouped
<1>4. Transcripts'
  BY <1>1, <1>2, <1>3 DEF Transcripts, GroupInv, Groups
<1> QED
  BY <1>1, <1>4, GroupsOutside DEF InBatch, NoBatch

LEMMA SessionStartsGrouped == SessionInit => GroupInv
<1> SUFFICES ASSUME SessionInit PROVE Groups
  BY DEF GroupInv
<1>1. messages = <<>> /\ persisted = <<>> /\ context = <<>> /\ pc = "idle" /\ batch = NoBatch
  BY DEF SessionInit, LoopInit
<1>2. <<>> \in Seq(Messages) /\ Len(<<>>) = 0
  OBVIOUS
<1>3. Grouped(<<>>)
  BY <1>2 DEF Grouped
<1> QED
  BY <1>1, <1>2, <1>3 DEF Groups, Transcripts, InBatch, NoBatch

LEMMA SubmitGroups ==
  ASSUME AInv, GroupInv, NEW d \in Drivers, driver[d].phase = "submit",
         prompt(<<User(driver[d].text)>>), handleAgentEvent(NewMessages), overlapped' = overlapped
  PROVE  GroupInv'
<1> DEFINE t == driver[d].text
           ts == <<t>>
<1>1. t \in Texts
  <2>1. driver[d] \in DriverRecords /\ HoldsText(driver[d])
    BY DEF AInv, Types
  <2> QED
    BY <2>1 DEF HoldsText, DriverRecords
<1>2. ts \in Seq(Texts) /\ <<User(t)>> = AsUsers(ts)
  BY <1>1, OneText
<1>3. runAgentLoop(<<User(t)>>, FALSE)
  BY DEF prompt
<1> HIDE DEF t, ts
<1>4. runAgentLoop(AsUsers(ts), FALSE)
  BY <1>2, <1>3
<1> QED
  BY <1>2, <1>4, StartGroups

LEMMA ResumeGroups ==
  ASSUME AInv, GroupInv, continue, handleAgentEvent(NewMessages), overlapped' = overlapped
  PROVE  GroupInv'
<1>1. steering \in Seq(Texts) /\ followUp \in Seq(Texts)
  BY DEF AInv, Types
<1>2. messages # <<>> /\ ~continueRefused
  BY DEF continue, continueRefused
<1>3. CASE runAgentLoop(<<>>, FALSE)
  <2>1. AsUsers(<<>>) = <<>> /\ <<>> \in Seq(Texts)
    BY UsersOf, EmptyQueue
  <2>2. runAgentLoop(AsUsers(<<>>), FALSE)
    BY <1>3, <2>1
  <2> QED
    BY <2>1, <2>2, StartGroups
<1>4. CASE steering # <<>> /\ runAgentLoop(AsUsers(Drained(steering, SteeringMode)), TRUE)
  <2> DEFINE ts == Drained(steering, SteeringMode)
  <2>1. ts \in Seq(Texts) /\ runAgentLoop(AsUsers(ts), TRUE)
    BY <1>1, <1>4, SplitQueue
  <2> HIDE DEF ts
  <2> QED
    BY <2>1, StartGroups
<1>5. CASE /\ LastIsAssistant /\ steering = <<>>
           /\ runAgentLoop(AsUsers(Drained(followUp, FollowUpMode)), FALSE)
  <2> DEFINE ts == Drained(followUp, FollowUpMode)
  <2>1. followUp # <<>>
    BY <1>2, <1>5 DEF continueRefused, hasQueuedMessages
  <2>2. ts \in Seq(Texts) /\ runAgentLoop(AsUsers(ts), FALSE)
    BY <1>1, <1>5, <2>1, SplitQueue
  <2> HIDE DEF ts
  <2> QED
    BY <2>2, StartGroups
<1> QED
  BY <1>3, <1>4, <1>5 DEF continue

LEMMA SessionNextGroups ==
  ASSUME AInv, ResInv, GroupInv, [SessionNext]_agentVars
  PROVE  GroupInv'
<1>1. CASE \/ \E d \in Drivers : handlePostAgentRun(d)
           \/ ~Settling /\ UserStep
           \/ UNCHANGED agentVars
  BY <1>1, MovesOutside, MovesGroup
<1>2. ASSUME ~Settling, NEW d \in Drivers, DriverStep(d) PROVE GroupInv'
  <2>1. CASE retryDelayEnds(d) \/ compactionFails(d) \/ compactionSucceeds(d)
    BY <1>2, <2>1, MovesOutside, MovesGroup
  <2>2. CASE submit(d)
    <3>1. driver[d].phase = "submit"
      BY <2>2 DEF submit
    <3>2. CASE Throw(d)
      BY <1>2, <3>1, <3>2, MovesOutside, MovesGroup
    <3>3. CASE ~Throw(d)
      BY <2>2, <3>3, SubmitGroups DEF submit
    <3> QED
      BY <3>2, <3>3
  <2>3. CASE resume(d)
    <3>1. driver[d].phase = "resume"
      BY <2>3 DEF resume
    <3>2. CASE Throw(d)
      BY <1>2, <3>1, <3>2, MovesOutside, MovesGroup
    <3>3. CASE ~Throw(d)
      BY <2>3, <3>3, ResumeGroups DEF resume
    <3> QED
      BY <3>2, <3>3
  <2> QED
    BY <1>2, <2>1, <2>2, <2>3 DEF DriverStep
<1> QED
  BY <1>1, <1>2, LoopGroups, SettlingGroups DEF SessionNext

-----------------------------------------------------------------------------
(* What the provider is sent, by induction over the transcript. *)

Calls == Nat \X Nat

States == [out : Seq(Messages), calls : Seq(Calls), seen : SUBSET Calls]

Blank == [out |-> <<>>, calls |-> <<>>, seen |-> {}]

(* The results that are made up for the calls q. *)
MadeUp(q) == [i \in DOMAIN q |-> ToolResult(q[i][1], q[i][2])]

LEMMA MadeUpAre ==
  ASSUME NEW q \in Seq(Calls)
  PROVE  /\ MadeUp(q) \in Seq(Messages) /\ Len(MadeUp(q)) = Len(q)
         /\ \A i \in 1..Len(q) : MadeUp(q)[i] = ToolResult(q[i][1], q[i][2])
<1> DEFINE n == Len(q)
<1>1. DOMAIN q = 1..n /\ n \in Nat /\ \A i \in 1..n : q[i] \in Calls
  BY LenProperties
<1>2. \A i \in 1..n : ToolResult(q[i][1], q[i][2]) \in Messages
  BY <1>1 DEF ToolResult, Messages, ResultMessages, Calls
<1>3. MadeUp(q) = [i \in 1..n |-> ToolResult(q[i][1], q[i][2])]
  BY <1>1 DEF MadeUp
<1> HIDE DEF n
<1>4. MadeUp(q) \in Seq(Messages) /\ Len(MadeUp(q)) = n
  BY <1>1, <1>2, <1>3
<1> QED
  BY <1>3, <1>4 DEF n

LEMMA FlushIs ==
  ASSUME NEW s \in States
  PROVE  /\ insertSyntheticToolResults(s) =
              [out |-> s.out \o MadeUp(Without(s.calls, s.seen)), calls |-> <<>>, seen |-> {}]
         /\ insertSyntheticToolResults(s) \in States
<1>1. s.out \in Seq(Messages) /\ s.calls \in Seq(Calls)
  BY DEF States
<1> DEFINE q == Without(s.calls, s.seen)
<1>2. q \in Seq(Calls)
  BY <1>1, WithoutFnIs
<1>3. insertSyntheticToolResults(s) = [out |-> s.out \o MadeUp(q), calls |-> <<>>, seen |-> {}]
  BY Zenon DEF insertSyntheticToolResults, MadeUp
<1> HIDE DEF q
<1> DEFINE o == s.out \o MadeUp(q)
<1>4. o \in Seq(Messages)
  BY <1>1, <1>2, MadeUpAre, Longer
<1>5. insertSyntheticToolResults(s) = [out |-> o, calls |-> <<>>, seen |-> {}]
  BY <1>3
<1> HIDE DEF o
<1>6. insertSyntheticToolResults(s) \in States
  BY <1>4, <1>5 DEF States
<1> QED
  BY <1>3, <1>6 DEF q

(* What a message of each kind does. *)
LEMMA StepIs ==
  ASSUME NEW s \in States, NEW m \in Messages
  PROVE  LET f == insertSyntheticToolResults(s)
             t == TransformStep(s, m)
         IN  /\ IsResult(m) => t = [out |-> Append(s.out, m), calls |-> s.calls,
                                    seen |-> s.seen \cup {<<m.turn, m.call>>}]
             /\ IsAssistant(m) /\ m.stop \in Failed => t = f
             /\ Turn(m) => t = [out |-> Append(f.out, m), calls |-> [k \in 1..m.calls |-> <<m.turn, k>>],
                                seen |-> {}]
             /\ ~IsResult(m) /\ ~IsAssistant(m) => t = [out |-> Append(f.out, m), calls |-> <<>>, seen |-> {}]
             /\ t \in States
<1> DEFINE f == insertSyntheticToolResults(s)
           t == TransformStep(s, m)
           seen == s.seen \cup {<<m.turn, m.call>>}
           calls == [k \in 1..m.calls |-> <<m.turn, k>>]
<1>1. f \in States /\ f.calls = <<>> /\ f.seen = {}
  <2> DEFINE o == s.out \o MadeUp(Without(s.calls, s.seen))
  <2>1. f = [out |-> o, calls |-> <<>>, seen |-> {}] /\ f \in States
    BY FlushIs
  <2> HIDE DEF f, o
  <2> QED
    BY <2>1
<1>2. s = [out |-> s.out, calls |-> s.calls, seen |-> s.seen] /\ s.out \in Seq(Messages)
      /\ s.calls \in Seq(Calls) /\ s.seen \subseteq Calls
  BY DEF States
<1>3. f = [out |-> f.out, calls |-> <<>>, seen |-> {}] /\ f.out \in Seq(Messages)
  BY <1>1 DEF States
<1>4. Append(s.out, m) \in Seq(Messages) /\ Append(f.out, m) \in Seq(Messages)
  BY <1>2, <1>3, AppendProperties
<1> HIDE DEF f
<1>5. ASSUME IsResult(m)
      PROVE  t = [out |-> Append(s.out, m), calls |-> s.calls, seen |-> seen] /\ t \in States
  <2>1. m.role = "toolResult" /\ ~IsAssistant(m)
    BY <1>5 DEF IsResult, IsAssistant
  <2>2. t = [s EXCEPT !.out = Append(@, m), !.seen = @ \cup {<<m.turn, m.call>>}]
    BY <2>1 DEF TransformStep
  <2>3. t = [out |-> Append(s.out, m), calls |-> s.calls, seen |-> seen]
    BY <1>2, <2>2
  <2>4. <<m.turn, m.call>> \in Calls
    <3>1. m \in ResultMessages
      BY <2>1, RolesOf DEF Messages
    <3> QED
      BY <3>1 DEF ResultMessages, Calls
  <2>5. seen \subseteq Calls
    BY <1>2, <2>4
  <2> HIDE DEF seen, t
  <2> QED
    BY <1>2, <1>4, <2>3, <2>5 DEF States
<1>6. ASSUME IsAssistant(m), m.stop \in Failed PROVE t = f /\ t \in States
  <2>1. m.role # "toolResult"
    BY <1>6 DEF IsAssistant
  <2>2. t = f
    BY <1>6, <2>1 DEF TransformStep, f
  <2> QED
    BY <1>1, <2>2
<1>7. ASSUME Turn(m)
      PROVE  t = [out |-> Append(f.out, m), calls |-> calls, seen |-> {}] /\ t \in States
  <2>1. m.role # "toolResult" /\ IsAssistant(m) /\ m.stop \notin Failed
    BY <1>7 DEF Turn, IsAssistant
  <2>2. t = [out |-> Append(f.out, m), calls |-> calls, seen |-> {}]
    BY <2>1 DEF TransformStep, f
  <2>3. m.turn \in Nat /\ m.calls \in Nat
    <3>1. m \in AnswerMessages
      BY <2>1, AnswerRole
    <3> QED
      BY <3>1 DEF AnswerMessages
  <2>4. calls \in Seq(Calls)
    <3>1. \A k \in 1..m.calls : <<m.turn, k>> \in Calls
      BY <2>3 DEF Calls
    <3> HIDE DEF calls
    <3>2. calls = [k \in 1..m.calls |-> <<m.turn, k>>]
      BY DEF calls
    <3> QED
      BY <2>3, <3>1, <3>2
  <2> HIDE DEF calls, t
  <2> QED
    BY <1>4, <2>2, <2>4 DEF States
<1>8. ASSUME ~IsResult(m), ~IsAssistant(m)
      PROVE  t = [out |-> Append(f.out, m), calls |-> <<>>, seen |-> {}] /\ t \in States
  <2>1. m.role # "toolResult"
    BY <1>8 DEF IsResult
  <2>2. t = [f EXCEPT !.out = Append(@, m)]
    <3>1. t = LET flushed == insertSyntheticToolResults(s)
              IN  [flushed EXCEPT !.out = Append(@, m)]
      BY <1>8, <2>1, Zenon DEF TransformStep
    <3> QED
      BY <3>1, Zenon DEF f
  <2> HIDE DEF t
  <2>3. t = [out |-> Append(f.out, m), calls |-> <<>>, seen |-> {}]
    <3> DEFINE a == Append(f.out, m)
    <3>1. t = [f EXCEPT !.out = a]
      BY <2>2
    <3> DEFINE o == f.out
    <3>2. f = [out |-> o, calls |-> <<>>, seen |-> {}]
      BY <1>3
    <3> HIDE DEF a, o
    <3>3. t = [out |-> a, calls |-> f.calls, seen |-> f.seen]
      BY <3>1, <3>2
    <3>4. t = [out |-> a, calls |-> <<>>, seen |-> {}]
      BY <1>1, <3>3
    <3> QED
      BY <3>4 DEF a
  <2> HIDE DEF t
  <2>4. <<>> \in Seq(Calls)
    BY EmptySeq
  <2> QED
    BY <1>4, <2>3, <2>4 DEF States
<1>9. t \in States
  <2>1. IsResult(m) \/ (IsAssistant(m) /\ m.stop \in Failed) \/ Turn(m) \/ (~IsResult(m) /\ ~IsAssistant(m))
    BY DEF Turn
  <2> QED
    BY <1>5, <1>6, <1>7, <1>8, <2>1
<1> QED
  BY <1>5, <1>6, <1>7, <1>8, <1>9 DEF f

IsSentFn(ms, f) ==
  f = [i \in 0..Len(ms) |-> IF i = 0 THEN [out |-> <<>>, calls |-> <<>>, seen |-> {}]
                            ELSE TransformStep(f[i - 1], ms[i])]

SentFn(ms) == CHOOSE f : IsSentFn(ms, f)

(* The recursive function of transformMessages, and that it satisfies its equation. *)
LEMMA SentFnIs ==
  ASSUME NEW ms \in Seq(Messages)
  PROVE  /\ \A i \in 0..Len(ms) : SentFn(ms)[i] \in States
         /\ SentFn(ms)[0] = Blank
         /\ \A i \in 1..Len(ms) : SentFn(ms)[i] = TransformStep(SentFn(ms)[i - 1], ms[i])
         /\ transformMessages(ms) = insertSyntheticToolResults(SentFn(ms)[Len(ms)]).out
<1> DEFINE N == Len(ms)
           prev == [i \in 1..N |-> i - 1]
           step == [x \in States \X (1..N) |-> TransformStep(x[1], ms[x[2]])]
<1>1. N \in Nat /\ \A i \in 1..N : ms[i] \in Messages
  BY LenProperties
<1>2. prev \in [1..N -> Nat] /\ \A i \in 1..N : prev[i] < i /\ prev[i] = i - 1
  BY <1>1
<1>3. \A s \in States, m \in Messages : TransformStep(s, m) \in States
  BY StepIs
<1>4. /\ step \in [States \X (1..N) -> States]
      /\ \A s \in States, i \in 1..N : step[<<s, i>>] = TransformStep(s, ms[i])
  BY <1>1, <1>3
<1>5. Blank \in States
  BY EmptySeq DEF Blank, States
<1> HIDE DEF prev, step, N
<1>6. PICK f \in [0..N -> States] :
        f[0] = Blank /\ \A i \in 1..N : f[i] = step[<<f[prev[i]], i>>]
  <2>1. Recursion(N, States, Blank, prev, step)
    BY <1>1, <1>2, <1>4, <1>5 DEF Recursion
  <2>2. \E f : Solves(f, N, States, Blank, prev, step)
    BY <2>1, RecursionExists
  <2> QED
    BY <2>2 DEF Solves
<1>7. ASSUME NEW i \in 1..N PROVE f[i] = TransformStep(f[i - 1], ms[i])
  <2>1. prev[i] = i - 1 /\ i - 1 \in 0..N
    BY <1>1, <1>2
  <2>2. f[i - 1] \in States
    BY <1>6, <2>1
  <2>3. step[<<f[i - 1], i>>] = TransformStep(f[i - 1], ms[i])
    BY <1>4, <2>2
  <2>4. f[i] = step[<<f[i - 1], i>>]
    BY <1>6, <2>1
  <2> QED
    BY <2>3, <2>4
<1>8. IsSentFn(ms, f)
  <2>1. f = [i \in 0..N |-> f[i]]
    BY <1>6
  <2>2. ASSUME NEW i \in 0..N
        PROVE  f[i] = IF i = 0 THEN Blank ELSE TransformStep(f[i - 1], ms[i])
    <3>1. i # 0 => i \in 1..N
      BY <1>1
    <3> QED
      BY <1>6, <1>7, <3>1
  <2> QED
    BY <2>1, <2>2, Zenon DEF IsSentFn, N, Blank
<1> DEFINE W == SentFn(ms)
<1>9. IsSentFn(ms, W)
  <2>1. \E g : IsSentFn(ms, g)
    BY <1>8
  <2> QED
    BY <2>1, Zenon DEF SentFn
<1>10. transformMessages(ms) = insertSyntheticToolResults(W[N]).out
  BY Zenon DEF transformMessages, SentFn, IsSentFn, N
<1> HIDE DEF W
<1>11. W[0] = Blank /\ \A i \in 1..N : W[i] = TransformStep(W[i - 1], ms[i])
  <2>1. ASSUME NEW i \in 0..N
        PROVE  W[i] = IF i = 0 THEN Blank ELSE TransformStep(W[i - 1], ms[i])
    BY <1>9, Zenon DEF IsSentFn, N, Blank
  <2>2. 0 \in 0..N /\ \A i \in 1..N : i \in 0..N /\ i # 0
    BY <1>1
  <2> QED
    BY <2>1, <2>2
<1>12. \A i \in 0..N : W[i] \in States
  <2> DEFINE T == {i \in Nat : i <= N => W[i] \in States}
  <2>1. 0 \in T
    BY <1>5, <1>11
  <2>2. ASSUME NEW n \in Nat, n \in T PROVE n + 1 \in T
    <3> SUFFICES ASSUME n + 1 <= N PROVE W[n + 1] \in States
      OBVIOUS
    <3>1. n + 1 \in 1..N /\ (n + 1) - 1 = n
      BY <1>1
    <3>2. W[n] \in States /\ ms[n + 1] \in Messages
      BY <1>1, <2>2, <3>1
    <3> QED
      BY <1>3, <1>11, <3>1, <3>2
  <2>3. Nat \subseteq T
    <3> HIDE DEF T
    <3> QED
      BY <2>1, <2>2, SetInduction
  <2> QED
    BY <1>1, <2>3
<1> QED
  BY <1>10, <1>11, <1>12 DEF W, N

(* The calls of turn t, of which the first r have their result. *)
CallsOf(t, c) == [k \in 1..c |-> <<t, k>>]

SeenOf(t, r) == {<<t, k>> : k \in 1..r}

(* The calls that no result was seen for are the ones behind the first r. *)
LEMMA MissingAre ==
  ASSUME NEW t \in Nat, NEW c \in Nat, NEW r \in 0..c
  PROVE  LET q == Without(CallsOf(t, c), SeenOf(t, r))
         IN  q \in Seq(Calls) /\ Len(q) = c - r /\ \A k \in 1..(c - r) : q[k] = <<t, r + k>>
<1> DEFINE p == CallsOf(t, c)
           S == SeenOf(t, r)
           W == WithoutFn(p, S)
           size(i) == IF i <= r THEN 0 ELSE i - r
           T == {i \in Nat : i <= c => /\ Len(W[i]) = size(i)
                                       /\ \A k \in 1..size(i) : W[i][k] = <<t, r + k>>}
<1>1. p \in Seq(Calls) /\ Len(p) = c /\ \A k \in 1..c : p[k] = <<t, k>>
  <2>1. \A k \in 1..c : <<t, k>> \in Calls
    BY DEF Calls
  <2> QED
    BY <2>1 DEF CallsOf
<1>2. \A k \in 1..c : p[k] \in S <=> k <= r
  <2>1. \A k \in 1..c : <<t, k>> \in S <=> k <= r
    BY DEF SeenOf
  <2> HIDE DEF p, S
  <2> QED
    BY <1>1, <2>1
<1> HIDE DEF p, S
<1>3. /\ \A i \in 0..c : W[i] \in Seq(Calls)
      /\ W[0] = <<>>
      /\ \A i \in 1..c : WithoutStep(p, S, W, i)
      /\ Without(p, S) = W[c]
  BY <1>1, WithoutFnIs
<1> HIDE DEF W
<1>4. 0 \in T
  BY <1>3
<1>5. ASSUME NEW n \in Nat, n \in T PROVE n + 1 \in T
  <2> DEFINE h == n + 1
  <2> SUFFICES ASSUME h <= c
               PROVE  Len(W[h]) = size(h) /\ \A k \in 1..size(h) : W[h][k] = <<t, r + k>>
    OBVIOUS
  <2>1. h \in 1..c /\ h - 1 = n /\ n \in 0..c /\ h \in Nat
    OBVIOUS
  <2>2. Len(W[n]) = size(n) /\ \A k \in 1..size(n) : W[n][k] = <<t, r + k>>
    BY <1>5, <2>1
  <2>3. W[n] \in Seq(Calls) /\ WithoutStep(p, S, W, h)
    BY <1>3, <2>1
  <2>4. CASE h <= r
    <3>1. W[h] = W[n]
      BY <1>2, <2>1, <2>3, <2>4 DEF WithoutStep
    <3>2. size(h) = size(n)
      BY <2>4
    <3> QED
      BY <2>2, <3>1, <3>2
  <2>5. CASE ~(h <= r)
    <3>1. W[h] = Append(W[n], <<t, h>>)
      BY <1>1, <1>2, <2>1, <2>3, <2>5 DEF WithoutStep
    <3>2. size(n) = n - r /\ size(h) = n - r + 1 /\ n - r \in Nat /\ r + (n - r + 1) = h
      BY <2>5
    <3>3. <<t, h>> \in Calls
      BY <2>1 DEF Calls
    <3> HIDE DEF h
    <3>4. /\ Len(W[h]) = Len(W[n]) + 1 /\ W[h][Len(W[n]) + 1] = <<t, h>>
          /\ \A k \in 1..Len(W[n]) : W[h][k] = W[n][k]
      BY <2>3, <3>1, <3>3, AppendProperties
    <3>5. Len(W[n]) = n - r /\ \A k \in 1..(n - r) : W[n][k] = <<t, r + k>>
      BY <2>2, <3>2
    <3>6. Len(W[h]) = n - r + 1 /\ \A k \in 1..(n - r + 1) : W[h][k] = <<t, r + k>>
      <4>1. Len(W[h]) = n - r + 1
        BY <3>4, <3>5
      <4>2. \A k \in 1..(n - r) : W[h][k] = <<t, r + k>>
        BY <3>4, <3>5
      <4>3. W[h][n - r + 1] = <<t, r + (n - r + 1)>>
        BY <3>2, <3>4, <3>5
      <4>4. \A k \in 1..(n - r + 1) : k \in 1..(n - r) \/ k = n - r + 1
        BY <3>2
      <4> QED
        BY <4>1, <4>2, <4>3, <4>4
    <3> QED
      BY <3>2, <3>6
  <2> QED
    BY <2>4, <2>5
<1>6. Nat \subseteq T
  <2> HIDE DEF T
  <2> QED
    BY <1>4, <1>5, SetInduction
<1>7. size(c) = c - r
  OBVIOUS
<1>8. Len(W[c]) = c - r /\ \A k \in 1..(c - r) : W[c][k] = <<t, r + k>>
  <2>1. c \in T
    BY <1>6
  <2>2. Len(W[c]) = size(c) /\ \A k \in 1..size(c) : W[c][k] = <<t, r + k>>
    BY <2>1
  <2> HIDE DEF size
  <2> QED
    BY <1>7, <2>2
<1> QED
  BY <1>3, <1>8 DEF p, S

(* An answer and the first r of its results. *)
Group(m, r) == [k \in 1..(r + 1) |-> IF k = 1 THEN m ELSE ToolResult(m.turn, k - 1)]

LEMMA GroupIs ==
  ASSUME NEW m \in AnswerMessages, NEW r \in Nat
  PROVE  /\ Group(m, r) \in Seq(Messages) /\ Len(Group(m, r)) = r + 1
         /\ Group(m, r)[1] = m
         /\ \A k \in 1..r : Group(m, r)[k + 1] = ToolResult(m.turn, k)
<1> DEFINE g == Group(m, r)
           e(k) == IF k = 1 THEN m ELSE ToolResult(m.turn, k - 1)
<1>1. m \in Messages /\ m.turn \in Nat
  BY DEF Messages, AnswerMessages
<1>2. \A k \in 1..(r + 1) : e(k) \in Messages
  <2>1. SUFFICES ASSUME NEW k \in 1..(r + 1), k # 1 PROVE ToolResult(m.turn, k - 1) \in Messages
    BY <1>1
  <2>2. k - 1 \in Nat
    OBVIOUS
  <2> QED
    BY <1>1, <2>2 DEF ToolResult, Messages, ResultMessages
<1>3. g = [k \in 1..(r + 1) |-> e(k)]
  BY DEF Group
<1>4. e(1) = m /\ \A k \in 1..r : e(k + 1) = ToolResult(m.turn, k)
  <2>1. ASSUME NEW k \in 1..r PROVE k + 1 # 1 /\ (k + 1) - 1 = k
    OBVIOUS
  <2> QED
    BY <2>1
<1>5. 1 \in 1..(r + 1) /\ \A k \in 1..r : k + 1 \in 1..(r + 1)
  OBVIOUS
<1> HIDE DEF g, e
<1>6. g \in Seq(Messages) /\ Len(g) = r + 1
  BY <1>2, <1>3
<1>7. g[1] = e(1) /\ \A k \in 1..r : g[k + 1] = e(k + 1)
  BY <1>3, <1>5
<1> QED
  BY <1>4, <1>6, <1>7 DEF g

LEMMA WellFormedGroup ==
  ASSUME NEW w \in Seq(Messages), WellFormed(w), NEW m \in AnswerMessages
  PROVE  WellFormed(w \o Group(m, m.calls))
<1> DEFINE c == m.calls
           g == Group(m, c)
           n == Len(w)
           o == w \o g
<1>1. /\ c \in Nat /\ g \in Seq(Messages) /\ Len(g) = c + 1 /\ g[1] = m
      /\ \A k \in 1..c : g[k + 1] = ToolResult(m.turn, k)
  <2>1. c \in Nat
    BY DEF AnswerMessages
  <2> HIDE DEF c
  <2> QED
    BY <2>1, GroupIs
<1> HIDE DEF g, c
<1>2. /\ o \in Seq(Messages) /\ Len(o) = n + (c + 1) /\ n \in Nat
      /\ \A i \in 1..(n + (c + 1)) : o[i] = IF i <= n THEN w[i] ELSE g[i - n]
  <2> DEFINE k == Len(g)
  <2>1. /\ o \in Seq(Messages) /\ Len(o) = n + k /\ n \in Nat
        /\ \A i \in 1..(n + k) : o[i] = IF i <= n THEN w[i] ELSE g[i - n]
    BY <1>1, ConcatProperties, LenProperties
  <2>2. k = c + 1
    BY <1>1
  <2> HIDE DEF k, o, n
  <2> QED
    BY <2>1, <2>2
<1> HIDE DEF o
<1>3. \A i \in 1..n : o[i] = w[i]
  BY <1>1, <1>2
<1>4. o[n + 1] = m
  BY <1>1, <1>2
<1>5. \A k \in 1..c : o[n + 1 + k] = ToolResult(m.turn, k)
  <2>1. SUFFICES ASSUME NEW k \in 1..c PROVE o[n + 1 + k] = ToolResult(m.turn, k)
    OBVIOUS
  <2>2. n + 1 + k \in 1..(n + (c + 1)) /\ ~(n + 1 + k <= n) /\ (n + 1 + k) - n = k + 1
    BY <1>1, <1>2
  <2>3. o[n + 1 + k] = g[k + 1]
    BY <1>2, <2>2
  <2> QED
    BY <1>1, <2>3
<1>6. IsAssistant(m) /\ m.calls = c /\ m.role # "toolResult"
  BY RolesOf DEF IsAssistant, c
<1>7. ASSUME NEW i \in 1..n
      PROVE  /\ IsAssistant(o[i]) =>
                  /\ i + o[i].calls <= Len(o)
                  /\ \A k \in 1..o[i].calls : o[i + k] = ToolResult(o[i].turn, k)
             /\ o[i].role = "toolResult" =>
                  \E j \in 1..(i - 1) : IsAssistant(o[j]) /\ o[j].turn = o[i].turn /\ i <= j + o[j].calls
  <2>1. o[i] = w[i] /\ i \in DOMAIN w /\ i \in Nat
    BY <1>3, LenProperties
  <2>2. ASSUME IsAssistant(o[i])
        PROVE  /\ i + o[i].calls <= Len(o)
               /\ \A k \in 1..o[i].calls : o[i + k] = ToolResult(o[i].turn, k)
    <3>1. i + w[i].calls <= n /\ \A k \in 1..w[i].calls : w[i + k] = ToolResult(w[i].turn, k)
      BY <2>1, <2>2 DEF WellFormed, n
    <3>2. w[i].calls \in Nat
      <4>1. w[i] \in AnswerMessages
        BY <2>1, <2>2, AnswerRole
      <4> QED
        BY <4>1 DEF AnswerMessages
    <3>3. \A k \in 1..w[i].calls : i + k \in 1..n
      BY <1>2, <2>1, <3>1, <3>2
    <3>4. \A k \in 1..w[i].calls : o[i + k] = w[i + k]
      BY <1>3, <3>3
    <3>5. i + w[i].calls <= Len(o)
      BY <1>1, <1>2, <2>1, <3>1, <3>2
    <3> QED
      BY <2>1, <3>1, <3>4, <3>5
  <2>3. ASSUME o[i].role = "toolResult"
        PROVE  \E j \in 1..(i - 1) : IsAssistant(o[j]) /\ o[j].turn = o[i].turn /\ i <= j + o[j].calls
    <3>1. PICK j \in 1..(i - 1) : IsAssistant(w[j]) /\ w[j].turn = w[i].turn /\ i <= j + w[j].calls
      BY <2>1, <2>3 DEF WellFormed
    <3>2. j \in 1..n
      BY <1>2, <2>1
    <3> QED
      BY <1>3, <2>1, <3>1, <3>2
  <2> QED
    BY <2>2, <2>3
<1>8. ASSUME NEW k \in 1..c
      PROVE  LET i == n + 1 + k IN
             /\ ~IsAssistant(o[i])
             /\ \E j \in 1..(i - 1) : IsAssistant(o[j]) /\ o[j].turn = o[i].turn /\ i <= j + o[j].calls
  <2>1. o[n + 1 + k] = ToolResult(m.turn, k)
    BY <1>5
  <2>2. n + 1 \in 1..((n + 1 + k) - 1) /\ n + 1 + k <= n + 1 + c
    BY <1>1, <1>2
  <2>3. ToolResult(m.turn, k).turn = m.turn /\ ~IsAssistant(ToolResult(m.turn, k))
    BY DEF ToolResult, IsAssistant
  <2> QED
    BY <1>4, <1>6, <2>1, <2>2, <2>3
<1>9. ASSUME NEW i \in 1..Len(o)
      PROVE  /\ IsAssistant(o[i]) =>
                  /\ i + o[i].calls <= Len(o)
                  /\ \A k \in 1..o[i].calls : o[i + k] = ToolResult(o[i].turn, k)
             /\ o[i].role = "toolResult" =>
                  \E j \in 1..(i - 1) : IsAssistant(o[j]) /\ o[j].turn = o[i].turn /\ i <= j + o[j].calls
  <2>1. CASE i \in 1..n
    BY <1>7, <2>1
  <2>2. CASE i = n + 1
    <3>1. n + 1 + c <= Len(o)
      BY <1>1, <1>2
    <3> QED
      BY <1>4, <1>5, <1>6, <2>2, <3>1
  <2>3. CASE i \notin 1..n /\ i # n + 1
    <3> DEFINE k == i - n - 1
    <3>1. k \in 1..c /\ i = n + 1 + k
      BY <1>1, <1>2, <2>3
    <3> HIDE DEF k
    <3> QED
      BY <1>8, <3>1
  <2> QED
    BY <2>1, <2>2, <2>3
<1>10. DOMAIN o = 1..Len(o)
  BY <1>2, LenProperties
<1> HIDE DEF n
<1>11. WellFormed(o)
  BY <1>9, <1>10 DEF WellFormed
<1> QED
  BY <1>11 DEF o, g, c

LEMMA WellFormedLonger ==
  ASSUME NEW w \in Seq(Messages), WellFormed(w), NEW m \in Messages, ~IsAssistant(m), ~IsResult(m)
  PROVE  WellFormed(Append(w, m))
<1> DEFINE n == Len(w)
           o == Append(w, m)
<1>1. /\ o \in Seq(Messages) /\ Len(o) = n + 1 /\ n \in Nat /\ o[n + 1] = m
      /\ \A i \in 1..n : o[i] = w[i]
  BY AppendProperties, LenProperties
<1>2. DOMAIN o = 1..(n + 1) /\ DOMAIN w = 1..n
  BY <1>1, LenProperties
<1> HIDE DEF o
<1>3. ASSUME NEW i \in 1..n
      PROVE  /\ IsAssistant(o[i]) =>
                  /\ i + o[i].calls <= Len(o)
                  /\ \A k \in 1..o[i].calls : o[i + k] = ToolResult(o[i].turn, k)
             /\ o[i].role = "toolResult" =>
                  \E j \in 1..(i - 1) : IsAssistant(o[j]) /\ o[j].turn = o[i].turn /\ i <= j + o[j].calls
  <2>1. o[i] = w[i] /\ i \in DOMAIN w /\ i \in Nat
    BY <1>1, <1>2
  <2>2. ASSUME IsAssistant(o[i])
        PROVE  /\ i + o[i].calls <= Len(o)
               /\ \A k \in 1..o[i].calls : o[i + k] = ToolResult(o[i].turn, k)
    <3>1. i + w[i].calls <= n /\ \A k \in 1..w[i].calls : w[i + k] = ToolResult(w[i].turn, k)
      BY <2>1, <2>2 DEF WellFormed, n
    <3>2. w[i].calls \in Nat
      <4>1. w[i] \in AnswerMessages
        BY <2>1, <2>2, AnswerRole
      <4> QED
        BY <4>1 DEF AnswerMessages
    <3>3. \A k \in 1..w[i].calls : i + k \in 1..n
      BY <1>1, <2>1, <3>1, <3>2
    <3>4. \A k \in 1..w[i].calls : o[i + k] = w[i + k]
      BY <1>1, <3>3
    <3>5. i + w[i].calls <= Len(o)
      BY <1>1, <2>1, <3>1, <3>2
    <3> QED
      BY <2>1, <3>1, <3>4, <3>5
  <2>3. ASSUME o[i].role = "toolResult"
        PROVE  \E j \in 1..(i - 1) : IsAssistant(o[j]) /\ o[j].turn = o[i].turn /\ i <= j + o[j].calls
    <3>1. PICK j \in 1..(i - 1) : IsAssistant(w[j]) /\ w[j].turn = w[i].turn /\ i <= j + w[j].calls
      BY <2>1, <2>3 DEF WellFormed
    <3>2. j \in 1..n
      BY <1>1, <2>1
    <3> QED
      BY <1>1, <2>1, <3>1, <3>2
  <2> QED
    BY <2>2, <2>3
<1>4. ~IsAssistant(o[n + 1]) /\ o[n + 1].role # "toolResult"
  BY <1>1 DEF IsResult
<1>5. \A i \in 1..(n + 1) : i \in 1..n \/ i = n + 1
  BY <1>1
<1>6. WellFormed(o)
  BY <1>2, <1>3, <1>4, <1>5 DEF WellFormed
<1> QED
  BY <1>6 DEF o

(* No call is waiting for its result; or the answer m is, with the first r seen. *)
Closed(s) == WellFormed(s.out) /\ s.calls = <<>>

OpenFor(s, m, r) ==
  /\ m \in AnswerMessages /\ r \in 0..m.calls
  /\ s.calls = CallsOf(m.turn, m.calls) /\ s.seen = SeenOf(m.turn, r)
  /\ \E w \in Seq(Messages) : WellFormed(w) /\ s.out = w \o Group(m, r)

(* The results made up complete the group. *)
LEMMA GroupCompleted ==
  ASSUME NEW m \in AnswerMessages, NEW r \in 0..m.calls
  PROVE  Group(m, r) \o MadeUp(Without(CallsOf(m.turn, m.calls), SeenOf(m.turn, r))) = Group(m, m.calls)
<1> DEFINE t == m.turn
           c == m.calls
           q == Without(CallsOf(t, c), SeenOf(t, r))
           g == Group(m, r)
           x == MadeUp(q)
           o == g \o x
           a == Group(m, c)
<1>1. t \in Nat /\ c \in Nat
  BY DEF AnswerMessages
<1>2. r \in 0..c /\ r \in Nat
  BY <1>1
<1>3. /\ g \in Seq(Messages) /\ Len(g) = r + 1 /\ g[1] = m
      /\ \A k \in 1..r : g[k + 1] = ToolResult(t, k)
  BY <1>2, GroupIs
<1>4. /\ a \in Seq(Messages) /\ Len(a) = c + 1 /\ a[1] = m
      /\ \A k \in 1..c : a[k + 1] = ToolResult(t, k)
  <2> HIDE DEF c
  <2> QED
    BY <1>1, GroupIs
<1> HIDE DEF g, a, t, c
<1>5. q \in Seq(Calls) /\ Len(q) = c - r /\ \A k \in 1..(c - r) : q[k] = <<t, r + k>>
  BY <1>1, <1>2, MissingAre
<1> HIDE DEF q
<1>6. x \in Seq(Messages) /\ Len(x) = c - r /\ \A k \in 1..(c - r) : x[k] = ToolResult(t, r + k)
  <2>1. x \in Seq(Messages) /\ Len(x) = Len(q) /\ \A i \in 1..Len(q) : x[i] = ToolResult(q[i][1], q[i][2])
    BY <1>5, MadeUpAre
  <2> HIDE DEF x
  <2>2. \A k \in 1..(c - r) : q[k][1] = t /\ q[k][2] = r + k
    BY <1>5
  <2> QED
    BY <1>5, <2>1, <2>2
<1> HIDE DEF x
<1>7. /\ o \in Seq(Messages) /\ Len(o) = c + 1
      /\ \A i \in 1..(c + 1) : o[i] = IF i <= r + 1 THEN g[i] ELSE x[i - (r + 1)]
  <2> DEFINE n == Len(g)
             k == Len(x)
  <2>1. /\ o \in Seq(Messages) /\ Len(o) = n + k
        /\ \A i \in 1..(n + k) : o[i] = IF i <= n THEN g[i] ELSE x[i - n]
    BY <1>3, <1>6, ConcatProperties, LenProperties
  <2>2. n = r + 1 /\ n + k = c + 1
    BY <1>1, <1>2, <1>3, <1>6
  <2> HIDE DEF n, k, o
  <2> QED
    BY <2>1, <2>2
<1> HIDE DEF o
<1>8. ASSUME NEW i \in 1..(c + 1) PROVE o[i] = a[i]
  <2>1. CASE i = 1
    <3>1. i <= r + 1
      BY <1>2, <2>1
    <3> QED
      BY <1>3, <1>4, <1>7, <2>1, <3>1
  <2>2. CASE i # 1 /\ i <= r + 1
    <3> DEFINE k == i - 1
    <3>1. k \in 1..r /\ k \in 1..c /\ i = k + 1
      BY <1>1, <1>2, <2>2
    <3> HIDE DEF k
    <3>2. o[i] = g[k + 1]
      BY <1>7, <2>2, <3>1
    <3> QED
      BY <1>3, <1>4, <3>1, <3>2
  <2>3. CASE ~(i <= r + 1)
    <3> DEFINE k == i - (r + 1)
    <3>1. k \in 1..(c - r) /\ r + k \in 1..c /\ i = (r + k) + 1
      BY <1>1, <1>2, <2>3
    <3>2. o[i] = x[k]
      BY <1>7, <2>3
    <3> HIDE DEF k
    <3> QED
      BY <1>4, <1>6, <3>1, <3>2
  <2> QED
    BY <2>1, <2>2, <2>3
<1>9. o = a
  <2>1. o = [i \in 1..(c + 1) |-> o[i]]
    BY <1>7
  <2>2. a = [i \in 1..(c + 1) |-> a[i]]
    BY <1>4
  <2> QED
    BY <1>8, <2>1, <2>2
<1> QED
  BY <1>9 DEF o, a, g, x, q, t, c

LEMMA FlushCloses ==
  ASSUME NEW s \in States, Closed(s) \/ \E m, r : OpenFor(s, m, r)
  PROVE  /\ insertSyntheticToolResults(s) \in States
         /\ WellFormed(insertSyntheticToolResults(s).out)
         /\ insertSyntheticToolResults(s).calls = <<>>
<1> DEFINE f == insertSyntheticToolResults(s)
           x == MadeUp(Without(s.calls, s.seen))
           o == s.out \o x
<1>1. f = [out |-> o, calls |-> <<>>, seen |-> {}] /\ f \in States
  BY FlushIs
<1>2. s.out \in Seq(Messages) /\ s.calls \in Seq(Calls)
  BY DEF States
<1>3. CASE Closed(s)
  <2>1. s.calls = <<>> /\ WellFormed(s.out)
    BY <1>3 DEF Closed
  <2>2. Without(<<>>, s.seen) = <<>>
    <3>1. <<>> \in Seq(Calls) /\ Len(<<>>) = 0
      BY EmptySeq
    <3> QED
      BY <3>1, WithoutFnIs
  <2>3. MadeUp(<<>>) = <<>>
    <3>1. <<>> \in Seq(Calls) /\ Len(<<>>) = 0
      BY EmptySeq
    <3>2. MadeUp(<<>>) \in Seq(Messages) /\ Len(MadeUp(<<>>)) = 0
      BY <3>1, MadeUpAre
    <3> QED
      BY <3>2, EmptySeq
  <2>4. x = <<>>
    BY <2>1, <2>2, <2>3
  <2>5. o = s.out
    BY <1>2, <2>4, ConcatEmptySeq
  <2> HIDE DEF o, f
  <2> QED
    BY <1>1, <2>1, <2>5 DEF f
<1>4. ASSUME NEW m, NEW r, OpenFor(s, m, r) PROVE WellFormed(o)
  <2>1. /\ m \in AnswerMessages /\ r \in 0..m.calls /\ m.calls \in Nat /\ r \in Nat
        /\ s.calls = CallsOf(m.turn, m.calls) /\ s.seen = SeenOf(m.turn, r)
    BY <1>4 DEF OpenFor, AnswerMessages
  <2>2. PICK w \in Seq(Messages) : WellFormed(w) /\ s.out = w \o Group(m, r)
    BY <1>4 DEF OpenFor
  <2> DEFINE g == Group(m, r)
             a == Group(m, m.calls)
  <2>3. g \in Seq(Messages) /\ g \o x = a
    <3>1. g \o MadeUp(Without(CallsOf(m.turn, m.calls), SeenOf(m.turn, r))) = a
      BY <2>1, GroupCompleted
    <3>2. x = MadeUp(Without(CallsOf(m.turn, m.calls), SeenOf(m.turn, r)))
      BY <2>1
    <3>3. g \in Seq(Messages)
      BY <2>1, GroupIs
    <3> HIDE DEF g, x, a
    <3> QED
      BY <3>1, <3>2, <3>3
  <2>4. x \in Seq(Messages)
    BY <1>2, WithoutFnIs, MadeUpAre
  <2>5. WellFormed(w \o a)
    BY <2>1, <2>2, WellFormedGroup
  <2> HIDE DEF g, a, x
  <2>6. (w \o g) \o x = w \o (g \o x)
    <3>1. w \in Seq(Messages) /\ g \in Seq(Messages) /\ x \in Seq(Messages)
      BY <2>2, <2>3, <2>4
    <3> QED
      BY <3>1, Reassociated
  <2>7. o = w \o a
    BY <2>2, <2>3, <2>6 DEF g
  <2> QED
    BY <2>5, <2>7
<1> HIDE DEF o, f
<1> QED
  BY <1>1, <1>3, <1>4 DEF f

(* What the sender has seen after the first i messages of ms. *)
SentWell(ms, i) ==
  LET s == SentFn(ms)[i]
  IN  /\ Closed(s) \/ \E m, r : OpenFor(s, m, r)
      /\ \A j \in 1..i : Answering(ms, j, i - j) => OpenFor(s, ms[j], i - j)

(* The last result of a group, and the group before it. *)
LEMMA AnsweringLast ==
  ASSUME NEW ms \in Seq(Messages), NEW i \in Nat, i <= Len(ms), NEW j \in 1..i,
         Answering(ms, j, (i + 1) - j)
  PROVE  /\ Answering(ms, j, i - j) /\ IsResult(ms[i + 1])
         /\ ms[i + 1] = ToolResult(ms[j].turn, (i + 1) - j) /\ (i + 1) - j <= ms[j].calls
<1> DEFINE e == (i + 1) - j
<1>1. e \in 1..e /\ j + e = i + 1 /\ i - j = e - 1 /\ e \in Nat /\ i - j \in Nat
  OBVIOUS
<1>2. Turn(ms[j]) /\ e <= ms[j].calls /\ \A k \in 1..e : ms[j + k] = ToolResult(ms[j].turn, k)
  BY DEF Answering
<1> HIDE DEF e
<1>3. ms[i + 1] = ToolResult(ms[j].turn, e)
  BY <1>1, <1>2
<1>4. IsResult(ms[i + 1])
  BY <1>3 DEF IsResult, ToolResult
<1>5. ms[j].calls \in Nat
  <2>1. ms[j] \in Messages
    OBVIOUS
  <2>2. ms[j] \in AnswerMessages
    BY <1>2, <2>1, AnswerRole DEF Turn
  <2> QED
    BY <2>2 DEF AnswerMessages
<1>6. e - 1 <= ms[j].calls /\ \A k \in 1..(e - 1) : k \in 1..e
  <2> DEFINE c == ms[j].calls
  <2>1. c \in Nat /\ e <= c
    BY <1>2, <1>5
  <2> HIDE DEF c
  <2>2. e - 1 <= c
    BY <1>1, <2>1
  <2>3. \A k \in 1..(e - 1) : k \in 1..e
    BY <1>1
  <2> QED
    BY <2>2, <2>3 DEF c
<1>7. Answering(ms, j, e - 1)
  BY <1>2, <1>6 DEF Answering
<1> QED
  BY <1>1, <1>2, <1>3, <1>4, <1>7 DEF e

(* One more result extends the group. *)
LEMMA GroupGrows ==
  ASSUME NEW w \in Seq(Messages), NEW a \in AnswerMessages, NEW r \in Nat
  PROVE  Append(w \o Group(a, r), ToolResult(a.turn, r + 1)) = w \o Group(a, r + 1)
<1> DEFINE e == r + 1
           m == ToolResult(a.turn, e)
           g == Group(a, r)
           h == Group(a, e)
           x == <<m>>
<1>1. g \in Seq(Messages) /\ Len(g) = r + 1 /\ g[1] = a /\ \A k \in 1..r : g[k + 1] = ToolResult(a.turn, k)
  BY GroupIs
<1>2. e \in Nat /\ e = r + 1
  OBVIOUS
<1>3. m \in Messages
  BY <1>2 DEF ToolResult, Messages, ResultMessages, AnswerMessages
<1> HIDE DEF e
<1>4. h \in Seq(Messages) /\ Len(h) = e + 1 /\ h[1] = a /\ \A k \in 1..e : h[k + 1] = ToolResult(a.turn, k)
  BY <1>2, GroupIs
<1>5. h[e + 1] = m
  <2>1. e \in 1..e
    BY <1>2
  <2> QED
    BY <1>4, <2>1
<1> HIDE DEF g, h, m
<1>6. Append(g, m) = h
  <2> DEFINE o == Append(g, m)
  <2>1. /\ o \in Seq(Messages) /\ Len(o) = e + 1 /\ o[e + 1] = m
        /\ \A k \in 1..e : o[k] = g[k]
    BY <1>1, <1>2, <1>3, AppendProperties
  <2> HIDE DEF o
  <2>2. ASSUME NEW k \in 1..(e + 1) PROVE o[k] = h[k]
    <3>1. CASE k = 1
      BY <1>1, <1>2, <1>4, <2>1, <3>1
    <3>2. CASE k # 1 /\ k <= e
      <4> DEFINE b == k - 1
      <4>1. b \in 1..r /\ b \in 1..e /\ k = b + 1 /\ k \in 1..e
        BY <1>2, <3>2
      <4> HIDE DEF b
      <4> QED
        BY <1>1, <1>4, <2>1, <4>1
    <3>3. CASE ~(k <= e)
      <4>1. k = e + 1
        BY <1>2, <3>3
      <4> QED
        BY <1>5, <2>1, <4>1
    <3> QED
      BY <3>1, <3>2, <3>3
  <2>3. o = [k \in 1..(e + 1) |-> o[k]] /\ h = [k \in 1..(e + 1) |-> h[k]]
    BY <1>2, <1>4, <2>1
  <2> QED
    BY <2>2, <2>3 DEF o
<1>7. x \in Seq(Messages) /\ Append(g, m) = g \o x
  BY <1>1, <1>3, OneMessage
<1>8. w \o g \in Seq(Messages) /\ Append(w \o g, m) = (w \o g) \o x
  <2>1. w \o g \in Seq(Messages)
    BY <1>1, ConcatProperties
  <2> QED
    BY <1>3, <2>1, OneMessage
<1> HIDE DEF x
<1>9. (w \o g) \o x = w \o (g \o x)
  BY <1>1, <1>7, Reassociated
<1>10. Append(w \o g, m) = w \o h
  BY <1>6, <1>7, <1>8, <1>9
<1> QED
  BY <1>10 DEF g, h, m, e

(* One more message. *)
LEMMA SentWellKept ==
  ASSUME NEW ms \in Seq(Messages), Grouped(ms), NEW i \in Nat, i + 1 <= Len(ms), SentWell(ms, i)
  PROVE  SentWell(ms, i + 1)
<1> DEFINE s == SentFn(ms)[i]
           t == SentFn(ms)[i + 1]
           m == ms[i + 1]
           f == insertSyntheticToolResults(s)
<1>1. /\ i + 1 \in 1..Len(ms) /\ i \in 0..Len(ms) /\ i + 1 \in 0..Len(ms) /\ (i + 1) - 1 = i
      /\ Len(ms) \in Nat
  BY LenProperties
<1>2. m \in Messages /\ s \in States /\ t \in States /\ t = TransformStep(s, m)
  BY <1>1, SentFnIs
<1>3. /\ Closed(s) \/ \E n, r : OpenFor(s, n, r)
      /\ \A j \in 1..i : Answering(ms, j, i - j) => OpenFor(s, ms[j], i - j)
  BY Zenon DEF SentWell
<1> HIDE DEF s, t
<1>4. f \in States /\ WellFormed(f.out) /\ f.calls = <<>> /\ f.out \in Seq(Messages)
  BY <1>2, <1>3, FlushCloses DEF States
<1>5. /\ IsResult(m) => t = [out |-> Append(s.out, m), calls |-> s.calls,
                             seen |-> s.seen \cup {<<m.turn, m.call>>}]
      /\ IsAssistant(m) /\ m.stop \in Failed => t = f
      /\ Turn(m) => t = [out |-> Append(f.out, m), calls |-> [k \in 1..m.calls |-> <<m.turn, k>>],
                         seen |-> {}]
      /\ ~IsResult(m) /\ ~IsAssistant(m) => t = [out |-> Append(f.out, m), calls |-> <<>>, seen |-> {}]
  BY <1>2, StepIs
<1> HIDE DEF f
<1>6. SUFFICES /\ Closed(t) \/ \E n, r : OpenFor(t, n, r)
               /\ \A j \in 1..(i + 1) : Answering(ms, j, (i + 1) - j) => OpenFor(t, ms[j], (i + 1) - j)
  BY Zenon DEF SentWell, t
<1>7. CASE IsResult(m)
  <2>1. ~Turn(m) /\ m.role = "toolResult"
    BY <1>7 DEF Turn, IsResult, IsAssistant
  <2>2. ASSUME NEW j \in 1..i, Answering(ms, j, (i + 1) - j) PROVE OpenFor(t, ms[j], (i + 1) - j)
    <3> DEFINE a == ms[j]
               r == i - j
               e == (i + 1) - j
               g == Group(a, r)
    <3>1. Answering(ms, j, r) /\ m = ToolResult(a.turn, e) /\ e <= a.calls
      BY <2>2, AnsweringLast
    <3>2. OpenFor(s, a, r)
      BY <1>3, <3>1
    <3>3. r \in Nat /\ e = r + 1 /\ e \in Nat
      OBVIOUS
    <3> HIDE DEF a, r, e
    <3>4. /\ a \in AnswerMessages /\ s.calls = CallsOf(a.turn, a.calls) /\ s.seen = SeenOf(a.turn, r)
          /\ a.calls \in Nat
      BY <3>2 DEF OpenFor, AnswerMessages
    <3>5. PICK w \in Seq(Messages) : WellFormed(w) /\ s.out = w \o g
      BY <3>2 DEF OpenFor
    <3>6. Append(s.out, m) = w \o Group(a, e)
      <4>1. Append(w \o g, ToolResult(a.turn, r + 1)) = w \o Group(a, r + 1)
        BY <3>3, <3>4, <3>5, GroupGrows
      <4> QED
        BY <3>1, <3>3, <3>5, <4>1
    <3>7. t.out = Append(s.out, m) /\ t.calls = s.calls /\ t.seen = s.seen \cup {<<m.turn, m.call>>}
      BY <1>5, <1>7
    <3>8. m.turn = a.turn /\ m.call = e
      BY <3>1 DEF ToolResult
    <3>9. SeenOf(a.turn, e) = SeenOf(a.turn, r) \cup {<<a.turn, e>>}
      <4>1. 1..e = 1..r \cup {e}
        BY <3>3
      <4> QED
        BY <4>1 DEF SeenOf
    <3>10. t.seen = SeenOf(a.turn, e)
      BY <3>4, <3>7, <3>8, <3>9
    <3>11. e \in 0..a.calls
      BY <3>1, <3>3, <3>4
    <3>12. OpenFor(t, a, e)
      BY <3>4, <3>5, <3>6, <3>7, <3>10, <3>11 DEF OpenFor
    <3> QED
      BY <3>12 DEF a, e
  <2>3. ASSUME NEW j \in 1..(i + 1), Answering(ms, j, (i + 1) - j) PROVE j \in 1..i
    <3>1. j # i + 1
      BY <2>1, <2>3 DEF Answering
    <3> QED
      BY <3>1
  <2>4. PICK j \in 1..i : Answering(ms, j, (i + 1) - j)
    <3>1. \E j \in 1..((i + 1) - 1) : Answering(ms, j, (i + 1) - j)
      BY <1>1, <1>7 DEF Grouped
    <3> QED
      BY <1>1, <3>1
  <2>5. OpenFor(t, ms[j], (i + 1) - j)
    BY <2>2, <2>4
  <2> QED
    BY <2>2, <2>3, <2>5
<1>8. CASE ~IsResult(m)
  <2>1. ASSUME NEW j \in 1..(i + 1), Answering(ms, j, (i + 1) - j) PROVE j = i + 1 /\ (i + 1) - j = 0 /\ Turn(m)
    <3>1. j \notin 1..i
      <4>1. i <= Len(ms)
        BY <1>1
      <4> QED
        BY <1>8, <2>1, <4>1, AnsweringLast
    <3>2. j = i + 1 /\ (i + 1) - j = 0
      BY <3>1
    <3> QED
      BY <2>1, <3>2 DEF Answering
  <2>2. CASE Turn(m)
    <3>1. m \in AnswerMessages /\ m.calls \in Nat
      <4>1. m \in AnswerMessages
        BY <1>2, <2>2, AnswerRole DEF Turn
      <4> QED
        BY <4>1 DEF AnswerMessages
    <3>2. t.out = Append(f.out, m) /\ t.calls = CallsOf(m.turn, m.calls) /\ t.seen = {}
      <4>1. t.calls = [k \in 1..m.calls |-> <<m.turn, k>>] /\ t.out = Append(f.out, m) /\ t.seen = {}
        BY <1>5, <2>2
      <4> QED
        BY <4>1, Zenon DEF CallsOf
    <3>3. Group(m, 0) = <<m>>
      <4>1. Group(m, 0) = [k \in 1..1 |-> IF k = 1 THEN m ELSE ToolResult(m.turn, k - 1)]
        BY DEF Group
      <4>2. Group(m, 0) = [k \in 1..1 |-> m]
        BY <4>1
      <4> QED
        BY <4>2
    <3>4. Append(f.out, m) = f.out \o Group(m, 0)
      BY <1>2, <1>4, <3>3, OneMessage
    <3>5. SeenOf(m.turn, 0) = {}
      BY DEF SeenOf
    <3>6. \E w \in Seq(Messages) : WellFormed(w) /\ t.out = w \o Group(m, 0)
      BY <1>4, <3>2, <3>4
    <3>7. OpenFor(t, m, 0)
      <4>1. 0 \in 0..m.calls
        BY <3>1
      <4>2. t.calls = CallsOf(m.turn, m.calls) /\ t.seen = SeenOf(m.turn, 0)
        BY <3>2, <3>5
      <4> HIDE DEF m
      <4> QED
        BY <3>1, <3>6, <4>1, <4>2 DEF OpenFor
    <3> QED
      BY <2>1, <3>7
  <2>3. CASE ~Turn(m) /\ IsAssistant(m)
    <3>1. m.stop \in Failed
      BY <2>3 DEF Turn
    <3>2. Closed(t)
      BY <1>4, <1>5, <2>3, <3>1 DEF Closed
    <3> QED
      BY <2>1, <2>3, <3>2
  <2>4. CASE ~IsAssistant(m)
    <3>1. t.out = Append(f.out, m) /\ t.calls = <<>>
      BY <1>5, <1>8, <2>4
    <3>2. WellFormed(Append(f.out, m))
      BY <1>2, <1>4, <1>8, <2>4, WellFormedLonger
    <3>3. Closed(t)
      BY <3>1, <3>2 DEF Closed
    <3>4. ~Turn(m)
      BY <2>4 DEF Turn
    <3> QED
      BY <2>1, <3>3, <3>4
  <2> QED
    BY <2>2, <2>3, <2>4
<1> QED
  BY <1>7, <1>8

(* A transcript in which results follow their answer is sent well formed. *)
LEMMA SentIsWellFormed ==
  ASSUME NEW ms \in Seq(Messages), Grouped(ms)
  PROVE  WellFormed(transformMessages(ms))
<1> DEFINE N == Len(ms)
           T == {i \in Nat : i <= N => SentWell(ms, i)}
<1>1. N \in Nat /\ N \in 0..N
  BY LenProperties
<1>2. 0 \in T
  <2>1. SentFn(ms)[0] = Blank
    BY SentFnIs
  <2>2. Closed(Blank)
    <3>1. DOMAIN <<>> = {}
      OBVIOUS
    <3> QED
      BY <3>1 DEF Closed, Blank, WellFormed
  <2>3. SentWell(ms, 0)
    BY <2>1, <2>2 DEF SentWell
  <2> QED
    BY <2>3
<1>3. ASSUME NEW n \in Nat, n \in T PROVE n + 1 \in T
  <2> SUFFICES ASSUME n + 1 <= N PROVE SentWell(ms, n + 1)
    OBVIOUS
  <2>1. SentWell(ms, n) /\ n + 1 <= Len(ms)
    BY <1>1, <1>3
  <2> QED
    BY <2>1, SentWellKept
<1>4. Nat \subseteq T
  <2> HIDE DEF T
  <2> QED
    BY <1>2, <1>3, SetInduction
<1>5. SentWell(ms, N)
  BY <1>1, <1>4
<1> DEFINE s == SentFn(ms)[N]
<1>6. s \in States /\ transformMessages(ms) = insertSyntheticToolResults(s).out
  BY <1>1, SentFnIs
<1>7. Closed(s) \/ \E m, r : OpenFor(s, m, r)
  BY <1>5, Zenon DEF SentWell
<1> HIDE DEF s
<1> QED
  BY <1>6, <1>7, FlushCloses

(* What the provider is sent is well formed as long as calls of prompt() do not  *)
(* overlap: whichever tools an abort leaves unanswered, whatever is retried, and   *)
(* wherever a compaction cuts (findValidCutPoints), every call has its result right*)
(* behind it and every result its call.                                            *)
THEOREM AloneRequestsAreWellFormed == AgentSpec => []AloneRequestWellFormed
<1>1. GroupInv => AloneRequestWellFormed
  BY SentIsWellFormed DEF GroupInv, Groups, Transcripts, AloneRequestWellFormed, RequestWellFormed
<1>2. SessionInit => AInv /\ ResInv /\ GroupInv
  BY SessionStarts, SessionStartsEmpty, SessionStartsGrouped
<1>3. (AInv /\ ResInv /\ GroupInv) /\ [SessionNext]_agentVars => (AInv /\ ResInv /\ GroupInv)'
  BY SessionNextKeeps, SessionNextResumes, SessionNextGroups
<1> QED
  BY <1>1, <1>2, <1>3, PTL DEF AgentSpec
=============================================================================
