---------------------------- MODULE MessageBoard ----------------------------
(***************************************************************************)
(* Requests, notices and mailboxes (Server lines 265-287 and 371-380).     *)
(*                                                                         *)
(* A mailbox is a java.lang.StringBuilder that any thread of the server    *)
(* may append to while its owner's thread reads and empties it, without a  *)
(* lock: an array and a count.  append copies the message behind the first *)
(* count characters and then adds its length to the count, which is a read *)
(* and a write; setLength(0) sets the count and leaves the array as it is; *)
(* the append("") after it reads the count and writes it again.            *)
(*                                                                         *)
(* A message is one slot of the array.  `requests` is a java.util.HashMap  *)
(* that the command threads put into without a lock either: puts that      *)
(* overlap may lose entries.  The threads are the command threads of the   *)
(* accounts that are logged in and the threads of the uploads that answer  *)
(* a request.                                                              *)
(***************************************************************************)
EXTENDS Integers, Sequences, FiniteSets, HashMaps

CONSTANTS
  Students,   \* accounts with a mailbox (initMessageList)
  Strangers,  \* accounts that can log in and have none
  Requests,   \* request IDs, and the messages that announce them
  Uploads,    \* uploads that answer a request, and the notices of them
  MaxReads    \* bound: how often a student displays his messages

ASSUME BoardAssumption ==
  /\ Students \cap Strangers = {}
  /\ (Students \cup Strangers) \cap Uploads = {}
  /\ Requests \cap Uploads = {}
  /\ IsFiniteSet(Requests) /\ IsFiniteSet(Uploads)
  /\ MaxReads \in Nat

Accounts == Students \cup Strangers
Threads == Accounts \cup Uploads
Messages == Requests \cup Uploads
Nul == "nul"            \* a slot that was never written
Nobody == "nobody"      \* no mailbox

ASSUME NamesAssumption == Nul \notin Messages /\ Nobody \notin Students

VARIABLES
  requests,  \* request ID -> the account that posted it, a partial function
  chars,     \* the array of each mailbox, one slot per message
  count,     \* its count
  th,        \* the threads
  drawn,     \* the request IDs that clients have drawn (getRequestID)
  answers,   \* the request each upload answers, a partial function
  sent,      \* history: the messages appended to each mailbox, in order
  got,       \* history: what each student was shown
  reads,     \* how often he displayed his messages
  overlap,   \* history: was the mailbox ever used by two threads at a time?
  posted,    \* history: `requests` as it would be if puts lost nothing
  torn       \* history: has a put into `requests` ever overlapped another?

record == <<requests, posted, torn>>
vars == <<record, chars, count, th, drawn, answers, sent, got, reads, overlap>>
history == <<sent, got, reads>>

Slots == 1..Cardinality(Messages)

(* Where a thread is; the message it appends; the mailboxes it has still   *)
(* to do, the one it is at, the count it saw when it came there, the count *)
(* it has read to write it back, the text it has taken, and the keys that  *)
(* `requests` had when its put began.                                      *)
Thread(pc) == [pc |-> pc, msg |-> Nul, todo |-> {}, to |-> Nobody, size |-> 0,
               read |-> 0, text |-> <<>>, keys |-> {}]

Init ==
  /\ requests = EmptyMap /\ posted = EmptyMap /\ torn = FALSE
  /\ answers = EmptyMap /\ drawn = {}
  /\ chars = [u \in Students |-> [i \in Slots |-> Nul]]
  /\ count = [u \in Students |-> 0]
  /\ th = [t \in Threads |-> Thread("idle")]
  /\ sent = [u \in Students |-> <<>>] /\ got = [u \in Students |-> <<>>]
  /\ reads = [u \in Students |-> 0]
  /\ overlap = [u \in Students |-> FALSE]

-----------------------------------------------------------------------------
(* toString: the first count slots.                                        *)
Unread(u) == SubSeq(chars[u], 1, count[u])

(* A thread comes to mailbox u.                                            *)
Enter(t, u) == overlap' = [overlap EXCEPT ![u] = @ \/ \E s \in Threads \ {t} : th[s].to = u]

(* Mutant: the request is announced and never recorded.                    *)
PostWithoutPut(a, r) ==
  /\ th[a].pc = "idle" /\ r \notin drawn
  /\ drawn' = drawn \cup {r}
  /\ th' = [th EXCEPT ![a].pc = "walk", ![a].msg = r, ![a].todo = Students \ {a}]
  /\ UNCHANGED <<record, chars, count, answers, history, overlap>>

(* "req~...": requests.put begins.                                         *)
Post(a, r) ==
  /\ th[a].pc = "idle" /\ r \notin drawn
  /\ drawn' = drawn \cup {r}
  /\ th' = [th EXCEPT ![a].pc = "put", ![a].msg = r, ![a].keys = DOMAIN requests]
  /\ UNCHANGED <<record, chars, count, answers, history, overlap>>

(* requests.put ends, and may have overlapped another put.                 *)
Record(a) ==
  /\ requests' \in AfterPut(requests, th[a].keys, th[a].msg, a, TRUE)
  /\ posted' = Put(posted, th[a].msg, a)
  /\ torn' = (torn \/ th[a].keys # DOMAIN requests)

(* Mutants: the key and the value are swapped; the `continue` of line 273  *)
(* is forgotten.                                                           *)
PutRequestSwapped(a) ==
  /\ th[a].pc = "put"
  /\ requests' = Put(requests, a, th[a].msg)
  /\ th' = [th EXCEPT ![a].pc = "walk", ![a].todo = Students \ {a}, ![a].keys = {}]
  /\ UNCHANGED <<posted, torn, chars, count, drawn, answers, history, overlap>>
PutRequestForAll(a) ==
  /\ th[a].pc = "put"
  /\ Record(a)
  /\ th' = [th EXCEPT ![a].pc = "walk", ![a].todo = Students, ![a].keys = {}]
  /\ UNCHANGED <<chars, count, drawn, answers, history, overlap>>

(* The put ends, and the walk over the mailboxes of everyone else begins.  *)
PutRequest(a) ==
  /\ th[a].pc = "put"
  /\ Record(a)
  /\ th' = [th EXCEPT ![a].pc = "walk", ![a].todo = Students \ {a}, ![a].keys = {}]
  /\ UNCHANGED <<chars, count, drawn, answers, history, overlap>>

(* The next mailbox: append looks at the capacity there.                   *)
Walk(a) ==
  /\ th[a].pc = "walk"
  /\ \E u \in th[a].todo :
       /\ th' = [th EXCEPT ![a].pc = "copy", ![a].todo = @ \ {u},
                          ![a].to = u, ![a].size = count[u]]
       /\ Enter(a, u)
  /\ UNCHANGED <<record, chars, count, drawn, answers, history>>

WalkEnds(a) ==
  /\ th[a].pc = "walk" /\ th[a].todo = {}
  /\ th' = [th EXCEPT ![a] = Thread("idle")]
  /\ UNCHANGED <<record, chars, count, drawn, answers, history, overlap>>

-----------------------------------------------------------------------------
(* append(message): the message is copied behind the first count slots.    *)
Copy(t) ==
  /\ th[t].pc = "copy"
  /\ LET u == th[t].to IN
       chars' = [chars EXCEPT ![u][count[u] + 1] = th[t].msg]
  /\ th' = [th EXCEPT ![t].pc = "read"]
  /\ UNCHANGED <<record, count, drawn, answers, history, overlap>>

(* ... which throws when the count has grown since the capacity was looked *)
(* at, and the array is full.  A command thread ends.  An upload's thread  *)
(* removes the file it had received.                                       *)
CopyThrows(t) ==
  /\ th[t].pc = "copy" /\ count[th[t].to] > th[t].size
  /\ th' = [th EXCEPT ![t] = Thread("dead")]
  /\ UNCHANGED <<record, chars, count, drawn, answers, history, overlap>>

ReadCount(t) ==
  /\ th[t].pc = "read"
  /\ th' = [th EXCEPT ![t].pc = "add", ![t].read = count[th[t].to]]
  /\ UNCHANGED <<record, chars, count, drawn, answers, history, overlap>>

AddCount(t) ==
  /\ th[t].pc = "add"
  /\ LET u == th[t].to IN
       /\ count' = [count EXCEPT ![u] = th[t].read + 1]
       /\ sent' = [sent EXCEPT ![u] = Append(@, th[t].msg)]
  /\ th' = [th EXCEPT ![t].pc = IF t \in Uploads THEN "done" ELSE "walk",
                      ![t].to = Nobody, ![t].size = 0, ![t].read = 0]
  /\ UNCHANGED <<record, chars, drawn, answers, got, reads, overlap>>

-----------------------------------------------------------------------------
(* "display_msg?": the text is taken; an account without a mailbox is a    *)
(* NullPointerException, which ends its thread.                            *)
Display(u) ==
  /\ u \in Students /\ th[u].pc = "idle" /\ reads[u] < MaxReads
  /\ th' = [th EXCEPT ![u].pc = "clear", ![u].to = u, ![u].text = Unread(u)]
  /\ reads' = [reads EXCEPT ![u] = @ + 1]
  /\ Enter(u, u)
  /\ UNCHANGED <<record, chars, count, drawn, answers, sent, got>>

DisplayNothing(x) ==
  /\ x \in Strangers /\ th[x].pc = "idle"
  /\ th' = [th EXCEPT ![x] = Thread("dead")]
  /\ UNCHANGED <<record, chars, count, drawn, answers, history, overlap>>

(* Mutant: setLength(0) is forgotten.                                      *)
ClearNothing(u) ==
  /\ th[u].pc = "clear"
  /\ th' = [th EXCEPT ![u].pc = "again"]
  /\ UNCHANGED <<record, chars, count, drawn, answers, history, overlap>>

(* setLength(0)                                                            *)
Clear(u) ==
  /\ th[u].pc = "clear"
  /\ count' = [count EXCEPT ![u] = 0]
  /\ th' = [th EXCEPT ![u].pc = "again"]
  /\ UNCHANGED <<record, chars, drawn, answers, history, overlap>>

(* append("")                                                              *)
ReadAgain(u) ==
  /\ th[u].pc = "again"
  /\ th' = [th EXCEPT ![u].pc = "reply", ![u].read = count[u]]
  /\ UNCHANGED <<record, chars, count, drawn, answers, history, overlap>>

(* ... and the answer, with the text.                                      *)
WriteAgain(u) ==
  /\ th[u].pc = "reply"
  /\ count' = [count EXCEPT ![u] = th[u].read]
  /\ got' = [got EXCEPT ![u] = @ \o th[u].text]
  /\ th' = [th EXCEPT ![u] = Thread("idle")]
  /\ UNCHANGED <<record, chars, drawn, answers, sent, reads, overlap>>

-----------------------------------------------------------------------------
(* "upload_req?...": only the ID of a known request is accepted; the rest  *)
(* of the upload is not modelled here.                                     *)
Answer(k, r) ==
  /\ th[k].pc = "idle" /\ r \in DOMAIN requests
  /\ answers' = Put(answers, k, r)
  /\ th' = [th EXCEPT ![k].pc = "notify", ![k].msg = k]
  /\ UNCHANGED <<record, chars, count, drawn, history, overlap>>

(* The accounts that have a mailbox and have posted request r, as `requests`*)
(* tells: none when the entry is not there.                                *)
Posters(r) == {u \in Students : r \in DOMAIN requests /\ requests[r] = u}

(* addMessage: the mailbox of the account that posted the request.  If the *)
(* entry is gone, if requests.get misses it because another thread's put   *)
(* is moving it, or if the account has no mailbox, the thread dies of a    *)
(* NullPointerException.                                                   *)
Notify(k) ==
  /\ th[k].pc = "notify"
  /\ \/ \E u \in Posters(answers[k]) :
          /\ th' = [th EXCEPT ![k].pc = "copy", ![k].to = u, ![k].size = count[u]]
          /\ Enter(k, u)
     \/ /\ Posters(answers[k]) = {} \/ \E a \in Accounts : th[a].pc = "put"
        /\ th' = [th EXCEPT ![k] = Thread("dead")]
        /\ UNCHANGED overlap
  /\ UNCHANGED <<record, chars, count, drawn, answers, history>>

-----------------------------------------------------------------------------
Appending(t) == Copy(t) \/ CopyThrows(t) \/ ReadCount(t) \/ AddCount(t)
Account(a) ==
  PutRequest(a) \/ Walk(a) \/ WalkEnds(a) \/ Appending(a)
  \/ Clear(a) \/ ReadAgain(a) \/ WriteAgain(a)
Upload(k) == Notify(k) \/ Appending(k)

Next ==
  \/ \E a \in Accounts :
       Account(a) \/ Display(a) \/ DisplayNothing(a) \/ \E r \in Requests : Post(a, r)
  \/ \E k \in Uploads : Upload(k) \/ \E r \in Requests : Answer(k, r)

Spec == Init /\ [][Next]_vars

-----------------------------------------------------------------------------
TypeOK ==
  /\ DOMAIN posted \subseteq drawn /\ drawn \subseteq Requests
  /\ DOMAIN requests \subseteq DOMAIN posted /\ torn \in BOOLEAN
  /\ \A r \in DOMAIN posted : posted[r] \in Accounts
  /\ \A r \in DOMAIN requests : requests[r] = posted[r]
  /\ DOMAIN answers \subseteq Uploads
  /\ \A k \in DOMAIN answers : answers[k] \in drawn
  /\ chars \in [Students -> [Slots -> Messages \cup {Nul}]]
  /\ count \in [Students -> 0..Cardinality(Messages)]
  /\ th \in [Threads -> [pc: {"idle", "put", "walk", "copy", "read", "add",
                             "clear", "again", "reply", "notify", "done", "dead"},
                         msg: Messages \cup {Nul}, todo: SUBSET Students,
                         to: Students \cup {Nobody}, size: Nat, read: Nat,
                         text: Seq(Messages \cup {Nul}), keys: SUBSET Requests]]
  /\ sent \in [Students -> Seq(Messages)]
  /\ got \in [Students -> Seq(Messages \cup {Nul})]
  /\ reads \in [Students -> 0..MaxReads]
  /\ overlap \in [Students -> BOOLEAN]

In(m, s) == \E i \in 1..Len(s) : s[i] = m
Repeats(s) == \E i, j \in 1..Len(s) : i < j /\ s[i] = s[j]

(* All that student u was shown or is about to see, in the order of time.  *)
Seen(u) == got[u] \o th[u].text

(* However the threads interleave, a student only ever sees what was meant *)
(* for him: the requests of others, and the notices of the uploads that    *)
(* answer a request of his own (lines 272-274 and 378-379).                *)
OnlyOnesOwn ==
  \A u \in Students : \A m \in Messages : In(m, Seen(u) \o Unread(u)) =>
    IF m \in Requests THEN m \in DOMAIN posted /\ posted[m] # u
    ELSE /\ m \in DOMAIN answers /\ answers[m] \in DOMAIN posted
         /\ posted[answers[m]] = u

(* Who reads a request can answer it: its ID is known to the server before *)
(* its announcement is in any mailbox (line 268 comes before the loop),    *)
(* and stays known until two puts into `requests` have overlapped.         *)
KnownWhenSeen == ~torn =>
  \A u \in Students : \A r \in Requests :
    In(r, Seen(u) \o Unread(u)) => r \in DOMAIN requests

(* As long as no two threads were ever at a mailbox at the same time, its  *)
(* owner is shown every message once, in the order they were appended.     *)
ExactlyOnceAlone ==
  \A u \in Students : ~overlap[u] =>
    IF th[u].pc = "clear" THEN Seen(u) = sent[u]
    ELSE Seen(u) \o Unread(u) = sent[u]

(* "View all the unread messages" (README.md:12), "the server will send as *)
(* many messages" (README.md:16): a message that was appended is there.    *)
NothingLost ==
  \A u \in Students : \A i \in 1..Len(sent[u]) : In(sent[u][i], Seen(u) \o Unread(u))

(* Three more sentences of README.md that the code does not keep; no run   *)
(* checks them.                                                            *)

(* "unread" (README.md:12): what a student was shown is not shown again.   *)
NothingTwice == \A u \in Students : ~Repeats(got[u])

(* "This request will be broadcasted to all the connected students"        *)
(* (README.md:11): when the thread of a student who posted a request is    *)
(* ready for the next command, everybody else who is connected has it.     *)
BroadcastReachesAll ==
  \A r \in DOMAIN posted : th[posted[r]].pc = "idle" =>
    \A a \in Accounts \ {posted[r]} : a \in Students /\ In(r, sent[a])

(* A student can "View all the unread messages" (README.md:12): to ask for *)
(* them does not end his session.                                          *)
ViewerIsAnswered ==
  [][\A a \in Accounts : th[a].pc = "idle" => th'[a].pc # "dead"]_vars
=============================================================================
