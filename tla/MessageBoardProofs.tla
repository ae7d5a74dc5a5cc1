------------------------- MODULE MessageBoardProofs -------------------------
(***************************************************************************)
(* What a mailbox may show its owner, for any number of students, requests *)
(* and answering uploads, and every interleaving of their threads.         *)
(***************************************************************************)
EXTENDS MessageBoard, FiniteSetTheorems, SequenceTheorems, TLAPS

(* Whose mailbox a message may be in, once it is there: a request that is  *)
(* known, of somebody else; the notice of an upload that answers a request *)
(* of the owner.                                                           *)
Meant(reqs, ans, u, m) ==
  IF m \in Requests THEN m \in DOMAIN reqs /\ reqs[m] # u
  ELSE m \in DOMAIN ans /\ ans[m] \in DOMAIN reqs /\ reqs[ans[m]] = u

Appends == {"copy", "read", "add"}
Displays == {"clear", "again", "reply"}

Locals ==
  [pc: {"idle", "put", "walk", "copy", "read", "add",
        "clear", "again", "reply", "notify", "done", "dead"},
   msg: Messages \cup {Nul}, todo: SUBSET Students,
   to: Students \cup {Nobody}, size: Nat, read: Nat,
   text: Seq(Messages \cup {Nul}), keys: SUBSET Requests]

(* TypeOK with counts that are natural numbers; and until two puts overlap *)
(* the map has lost nothing.                                               *)
Types ==
  /\ DOMAIN posted \subseteq drawn /\ drawn \subseteq Requests
  /\ DOMAIN requests \subseteq DOMAIN posted /\ torn \in BOOLEAN
  /\ \A r \in DOMAIN posted : posted[r] \in Accounts
  /\ \A r \in DOMAIN requests : requests[r] = posted[r]
  /\ torn = FALSE => DOMAIN posted \subseteq DOMAIN requests
  /\ DOMAIN answers \subseteq Uploads
  /\ \A k \in DOMAIN answers : answers[k] \in drawn
  /\ chars \in [Students -> [Slots -> Messages \cup {Nul}]]
  /\ count \in [Students -> Nat]
  /\ th \in [Threads -> Locals]
  /\ sent \in [Students -> Seq(Messages)]
  /\ got \in [Students -> Seq(Messages \cup {Nul})]
  /\ reads \in [Students -> 0..MaxReads]
  /\ overlap \in [Students -> BOOLEAN]

(* What the thread of an account holds at each of its steps.               *)
AccountReady(a) ==
  /\ th[a].pc \notin {"notify", "done"}
  /\ th[a].pc = "put" => th[a].msg \in drawn \ DOMAIN posted
  /\ th[a].pc \in {"walk"} \cup Appends =>
       th[a].msg \in DOMAIN posted /\ posted[th[a].msg] = a /\ a \notin th[a].todo
  /\ th[a].pc \in Appends => th[a].to \in Students \ ({a} \cup th[a].todo)
  /\ th[a].pc \in Displays => a \in Students /\ th[a].to = a
  /\ th[a].pc \in {"idle", "dead"} \cup Displays => th[a].msg = Nul
  /\ th[a].pc \notin {"walk"} \cup Appends => th[a].todo = {}
  /\ th[a].pc \in {"idle", "put", "walk", "dead"} => th[a].to = Nobody

(* ... and that of an upload.                                              *)
UploadReady(k) ==
  /\ th[k].pc \in {"idle", "notify", "done", "dead"} \cup Appends
  /\ th[k].todo = {}
  /\ th[k].pc = "idle" => k \notin DOMAIN answers
  /\ th[k].pc \in {"idle", "dead"} => th[k].msg = Nul
  /\ th[k].pc \in {"notify", "done"} \cup Appends =>
       th[k].msg = k /\ k \in DOMAIN answers /\ answers[k] \in DOMAIN posted
  /\ th[k].pc \in Appends => th[k].to \in Students /\ posted[answers[k]] = th[k].to
  /\ th[k].pc \notin Appends => th[k].to = Nobody

Ready ==
  /\ \A a \in Accounts : AccountReady(a)
  /\ \A k \in Uploads : UploadReady(k)

(* Two requests that are about to be recorded are not the same.            *)
DistinctPuts ==
  \A a, b \in Accounts : a # b /\ th[a].pc = "put" /\ th[b].pc = "put" =>
    th[a].msg # th[b].msg

AllMeant(reqs, ans, u, s) == \A i \in 1..Len(s) : s[i] # Nul => Meant(reqs, ans, u, s[i])

(* What is in the arrays, read or not, and what was taken out of them.     *)
Boxes ==
  \A u \in Students : \A i \in Slots :
    chars[u][i] # Nul => Meant(posted, answers, u, chars[u][i])
Shown ==
  \A u \in Students : /\ AllMeant(posted, answers, u, got[u])
                      /\ AllMeant(posted, answers, u, th[u].text)

(* A message that was appended to a mailbox is known, and nobody will      *)
(* append it there again.                                                  *)
Settled(reqs, ans, locals, u, m) ==
  /\ Meant(reqs, ans, u, m)
  /\ \A t \in Threads : locals[t].msg = m => u \notin locals[t].todo /\ locals[t].to # u
  /\ m \in Uploads => locals[m].pc = "done"

SentSettled ==
  \A u \in Students : \A i \in 1..Len(sent[u]) :
    Settled(posted, answers, th, u, sent[u][i])
SentOnce == \A u \in Students : \A i, j \in 1..Len(sent[u]) : i # j => sent[u][i] # sent[u][j]

(* No count, and none that a thread has read, exceeds what was appended.   *)
Counted ==
  /\ \A u \in Students : count[u] <= Len(sent[u])
  /\ \A t \in Threads : th[t].pc \in {"add", "reply"} => th[t].read <= Len(sent[th[t].to])

Inv ==
  /\ Types /\ Ready /\ DistinctPuts
  /\ Boxes /\ Shown
  /\ SentSettled /\ SentOnce /\ Counted

(* A mailbox never counts more messages than there are: what was appended  *)
(* to it are that many different ones.                                     *)
LEMMA Bounded ==
  ASSUME Inv, NEW u \in Students
  PROVE  count[u] \in 0..Cardinality(Messages) /\ Len(sent[u]) <= Cardinality(Messages)
<1> DEFINE n == Len(sent[u])
<1>1. IsFiniteSet(Messages) /\ Cardinality(Messages) \in Nat
  <2>1. IsFiniteSet(Messages)
    BY FS_Union, BoardAssumption DEF Messages
  <2> QED
    BY <2>1, FS_CardinalityType
<1>2. n \in Nat /\ sent[u] \in [1..n -> Messages]
  BY DEF Inv, Types
<1>3. n <= Cardinality(Messages)
  <2> SUFFICES ASSUME Cardinality(Messages) < n PROVE FALSE
    BY <1>1, <1>2
  <2>1. IsFiniteSet(1..n) /\ Cardinality(1..n) = n
    <3>1. n > 0
      BY <1>1, <1>2
    <3> HIDE DEF n
    <3>2. 1 \in Int /\ n \in Int
      BY <1>2
    <3>3. IsFiniteSet(1..n) /\ Cardinality(1..n) = IF 1 > n THEN 0 ELSE n - 1 + 1
      BY <3>2, FS_Interval
    <3> QED
      BY <3>1, <3>2, <3>3
  <2>2. \E i, j \in 1..n : i # j /\ sent[u][i] = sent[u][j]
    <3> DEFINE D == 1..n
               f == sent[u]
    <3>1. f \in [D -> Messages] /\ IsFiniteSet(D) /\ Cardinality(Messages) < Cardinality(D)
      BY <1>2, <2>1
    <3> HIDE DEF D, f, n
    <3>2. \E i, j \in D : i # j /\ f[i] = f[j]
      BY <1>1, <3>1, FS_PigeonHole
    <3> QED
      BY <3>2 DEF D, f
  <2> QED
    BY <2>2 DEF Inv, SentOnce
<1>4. count[u] \in Nat /\ count[u] <= n
  BY DEF Inv, Types, Counted
<1> QED
  BY <1>1, <1>2, <1>3, <1>4

(* The invariant's types, with that bound, are those of the model.        *)
LEMMA TypesCorrect == Inv => TypeOK
<1> SUFFICES ASSUME Inv PROVE TypeOK
  OBVIOUS
<1>1. count \in [Students -> 0..Cardinality(Messages)]
  BY Bounded DEF Inv, Types
<1> QED
  BY <1>1 DEF Inv, Types, TypeOK, Locals

-----------------------------------------------------------------------------
(* What was posted, and what an upload answers, stays as it is.            *)
Grows ==
  /\ \A r \in DOMAIN posted : r \in DOMAIN posted' /\ posted'[r] = posted[r]
  /\ \A k \in DOMAIN answers : k \in DOMAIN answers' /\ answers'[k] = answers[k]

(* What is meant for somebody stays meant for him.                        *)
LEMMA MeantStays ==
  ASSUME Grows, NEW u, NEW m, Meant(posted, answers, u, m)
  PROVE  Meant(posted', answers', u, m)
BY DEF Grows, Meant

(* What of the invariant a step of thread t keeps, under what conditions.  *)
OnlyMoves(t) == \A s \in Threads \ {t} : th'[s] = th[s]

(* The other threads stay ready if the step records no request that       *)
(* another is about to record, and no answer but its own.                 *)
LEMMA ReadyKept ==
  ASSUME Ready, Grows, drawn \subseteq drawn', NEW t \in Threads, OnlyMoves(t),
         t \in Accounts => AccountReady(t)', t \in Uploads => UploadReady(t)',
         \A a \in Accounts \ {t} : th[a].pc = "put" => th[a].msg \notin DOMAIN posted',
         \A k \in Uploads \ {t} : k \in DOMAIN answers' => k \in DOMAIN answers
  PROVE  Ready'
<1>1. ASSUME NEW a \in Accounts, a # t PROVE AccountReady(a)'
  <2>1. th'[a] = th[a]
    BY <1>1 DEF OnlyMoves, Threads
  <2> QED
    BY <1>1, <2>1 DEF Ready, AccountReady, Grows
<1>2. ASSUME NEW k \in Uploads, k # t PROVE UploadReady(k)'
  <2>1. th'[k] = th[k]
    BY <1>2 DEF OnlyMoves, Threads
  <2>2. UploadReady(k)
    BY DEF Ready
  <2> QED
    BY <1>2, <2>1, <2>2 DEF UploadReady, Grows
<1> QED
  BY <1>1, <1>2 DEF Ready

(* ... a step that writes into no array keeps what is in them meant,      *)
LEMMA BoxesKept ==
  ASSUME Boxes, Grows, UNCHANGED chars
  PROVE  Boxes'
BY MeantStays DEF Boxes

(* ... and so does every text,                                            *)
LEMMA TextKept ==
  ASSUME Grows, NEW u, NEW s, AllMeant(posted, answers, u, s)
  PROVE  AllMeant(posted', answers', u, s)
BY MeantStays DEF AllMeant

(* ... what was shown and taken, if the text of the thread itself is,     *)
LEMMA ShownKept ==
  ASSUME Shown, Grows, UNCHANGED got, NEW t \in Threads, OnlyMoves(t),
         t \in Students => AllMeant(posted, answers, t, th'[t].text)
  PROVE  Shown'
<1>1. ASSUME NEW u \in Students
      PROVE  AllMeant(posted', answers', u, got'[u])
  BY TextKept DEF Shown
<1>2. ASSUME NEW u \in Students
      PROVE  AllMeant(posted', answers', u, th'[u].text)
  <2>1. AllMeant(posted, answers, u, th'[u].text)
    BY DEF Shown, OnlyMoves, Threads, Accounts
  <2> QED
    BY <2>1, TextKept
<1> QED
  BY <1>1, <1>2 DEF Shown

(* ... what was appended stays settled, if the thread will not append it  *)
(* where it already is,                                                   *)
LEMMA SettledKept ==
  ASSUME Types, SentSettled, SentOnce, UNCHANGED sent, Grows,
         NEW t \in Threads, OnlyMoves(t), th[t].pc # "done",
         \A u \in Students : \A i \in 1..Len(sent[u]) :
           th'[t].msg = sent[u][i] => u \notin th'[t].todo /\ th'[t].to # u
  PROVE  SentSettled' /\ SentOnce'
<1>1. ASSUME NEW u \in Students, NEW i \in 1..Len(sent[u])
      PROVE  Settled(posted', answers', th', u, sent[u][i])
  <2>1. Settled(posted, answers, th, u, sent[u][i])
    BY DEF SentSettled
  <2>2. Meant(posted', answers', u, sent[u][i])
    BY <2>1, MeantStays DEF Settled
  <2>3. ASSUME NEW s \in Threads, th'[s].msg = sent[u][i]
        PROVE  u \notin th'[s].todo /\ th'[s].to # u
    BY <2>1, <2>3 DEF Settled, OnlyMoves
  <2>4. sent[u][i] \in Uploads => th'[sent[u][i]].pc = "done"
    BY <2>1 DEF Settled, OnlyMoves, Threads
  <2> QED
    BY <2>2, <2>3, <2>4 DEF Settled
<1> QED
  BY <1>1 DEF SentSettled, SentOnce

(* ... the counts stay bounded by what was appended,                      *)
LEMMA CountedKept ==
  ASSUME Counted, UNCHANGED sent, NEW t \in Threads, OnlyMoves(t),
         \A u \in Students : count'[u] <= Len(sent[u]),
         th'[t].pc \in {"add", "reply"} => th'[t].read <= Len(sent[th'[t].to])
  PROVE  Counted'
BY DEF Counted, OnlyMoves

(* ... and no two threads come to record one request.                     *)
LEMMA PutsKept ==
  ASSUME DistinctPuts, NEW t \in Threads, OnlyMoves(t), th'[t].pc # "put"
  PROVE  DistinctPuts'
BY DEF DistinctPuts, OnlyMoves, Threads

-----------------------------------------------------------------------------
(* The steps, one lemma for each.                                          *)
(* A thread that rests has no message, no mailbox and no text.            *)
LEMMA IdleLocals ==
  \A p \in {"idle", "dead"} :
    /\ Thread(p) \in Locals
    /\ Thread(p).pc = p /\ Thread(p).msg = Nul /\ Thread(p).todo = {}
    /\ Thread(p).to = Nobody /\ Thread(p).text = <<>>
BY DEF Thread, Locals

(* The empty text is meant for everybody.                                 *)
LEMMA NothingMeant == \A u : AllMeant(posted, answers, u, <<>>)
BY DEF AllMeant

(* What was appended are messages, and no NUL characters.                 *)
LEMMA NulIsNotSent ==
  ASSUME Types, NEW u \in Students, NEW i \in 1..Len(sent[u])
  PROVE  sent[u][i] \in Messages /\ sent[u][i] # Nul
BY NamesAssumption DEF Types

(* A step that only moves one thread on, along its own conditions.         *)
LEMMA LocalStep ==
  ASSUME Inv, Types', NEW t \in Threads, OnlyMoves(t), drawn \subseteq drawn',
         UNCHANGED <<posted, answers, chars, sent, got>>,
         t \in Accounts => AccountReady(t)', t \in Uploads => UploadReady(t)',
         th[t].pc # "done", DistinctPuts',
         t \in Students => AllMeant(posted, answers, t, th'[t].text),
         \A u \in Students : \A i \in 1..Len(sent[u]) :
           th'[t].msg = sent[u][i] => u \notin th'[t].todo /\ th'[t].to # u,
         \A u \in Students : count'[u] <= Len(sent[u]),
         th'[t].pc \in {"add", "reply"} => th'[t].read <= Len(sent[th'[t].to])
  PROVE  Inv'
<1>1. Grows /\ Types /\ Ready
  BY DEF Grows, Inv
<1>2. Ready'
  <2>1. \A a \in Accounts : th[a].pc = "put" => th[a].msg \notin DOMAIN posted'
    BY <1>1 DEF Ready, AccountReady
  <2>2. \A k \in Uploads : k \in DOMAIN answers' => k \in DOMAIN answers
    OBVIOUS
  <2> QED
    BY <1>1, <2>1, <2>2, ReadyKept
<1>3. Boxes' /\ Shown' /\ SentSettled' /\ SentOnce' /\ Counted'
  BY <1>1, BoxesKept, ShownKept, SettledKept, CountedKept DEF Inv
<1> QED
  BY <1>2, <1>3 DEF Inv

(* A thread that goes on with its message, or has none, sends none twice.  *)
LEMMA NotSentAgain ==
  ASSUME Inv, NEW t \in Threads,
         \/ th'[t].msg = Nul
         \/ /\ th'[t].msg = th[t].msg /\ th'[t].todo \subseteq th[t].todo
            /\ th'[t].to \in {th[t].to, Nobody} \cup th[t].todo
  PROVE  \A u \in Students : \A i \in 1..Len(sent[u]) :
           th'[t].msg = sent[u][i] => u \notin th'[t].todo /\ th'[t].to # u
<1> SUFFICES ASSUME NEW u \in Students, NEW i \in 1..Len(sent[u]),
                    th'[t].msg = sent[u][i]
             PROVE  u \notin th'[t].todo /\ th'[t].to # u
  OBVIOUS
<1>1. th'[t].msg # Nul
  BY NulIsNotSent DEF Inv
<1>2. Settled(posted, answers, th, u, sent[u][i])
  BY DEF Inv, SentSettled
<1>3. u \notin th[t].todo /\ th[t].to # u
  BY <1>1, <1>2 DEF Settled
<1> QED
  BY <1>1, <1>3, NamesAssumption

(* What the invariant says of single threads, in the form the steps use.  *)
LEMMA ThreadFacts ==
  ASSUME Inv
  PROVE  /\ Types /\ Ready /\ Counted /\ Shown /\ DistinctPuts
         /\ \A t \in Threads : th[t] \in Locals
         /\ \A a \in Accounts : a \in Threads /\ a \notin Uploads /\ AccountReady(a)
         /\ \A k \in Uploads : k \in Threads /\ k \notin Accounts /\ k \notin Students
                               /\ UploadReady(k)
         /\ \A u \in Students : u \in Accounts
BY BoardAssumption DEF Inv, Types, Ready, Threads, Accounts

(* A student asks for something, under a request number that his client   *)
(* has drawn.                                                             *)
LEMMA PostInv ==
  ASSUME Inv, NEW a \in Accounts, NEW r \in Requests, Post(a, r)
  PROVE  Inv'
<1>1. /\ a \in Threads /\ r \in Messages /\ th[a] \in Locals /\ a \notin Uploads
      /\ Types /\ AccountReady(a)
  BY ThreadFacts DEF Messages
<1>2. /\ th'[a] = [th[a] EXCEPT !.pc = "put", !.msg = r, !.keys = DOMAIN requests]
      /\ OnlyMoves(a) /\ th' \in [Threads -> Locals]
  <2>1. [th[a] EXCEPT !.pc = "put", !.msg = r, !.keys = DOMAIN requests] \in Locals
    BY <1>1 DEF Locals, Types
  <2> QED
    BY <1>1, <2>1 DEF Post, Types, OnlyMoves
<1>3. /\ th'[a].pc = "put" /\ th'[a].msg = r /\ th'[a].todo = th[a].todo
      /\ th'[a].to = th[a].to /\ th'[a].text = th[a].text
  BY <1>1, <1>2 DEF Locals
<1>4. Types'
  BY <1>1, <1>2 DEF Post, Types, history, record
<1>5. AccountReady(a)'
  BY <1>1, <1>3 DEF AccountReady, Post, record, Types, Appends, Displays
<1>6. DistinctPuts'
  <2>1. \A b \in Accounts \ {a} : th'[b] = th[b] /\ (th[b].pc = "put" => th[b].msg # r)
    BY <1>2, ThreadFacts DEF Post, AccountReady, OnlyMoves
  <2> QED
    BY <1>3, <2>1, ThreadFacts DEF DistinctPuts
<1>7. \A u \in Students : th'[a].to # u /\ u \notin th'[a].todo
  BY <1>1, <1>3, NamesAssumption DEF AccountReady, Post, Appends
<1>8. \A u \in Students : count'[u] <= Len(sent[u])
  BY ThreadFacts DEF Counted, Post
<1> QED
  BY <1>1, <1>2, <1>3, <1>4, <1>5, <1>6, <1>7, <1>8, ThreadFacts, LocalStep
     DEF Post, history, record, Shown

(* The request is recorded (Server 268), unless another put has overlapped *)
(* this one; nobody else had drawn its number.                             *)
LEMMA PutRequestInv ==
  ASSUME Inv, NEW a \in Accounts, PutRequest(a)
  PROVE  Inv'
<1> DEFINE r == th[a].msg
<1>1. /\ a \in Threads /\ th[a] \in Locals /\ th[a].pc = "put"
      /\ Types /\ Ready /\ AccountReady(a) /\ r \in drawn \ DOMAIN posted
      /\ r \in Requests
  BY DEF Inv, Types, Ready, Threads, PutRequest, AccountReady
<1>2. /\ th'[a] = [th[a] EXCEPT !.pc = "walk", !.todo = Students \ {a}, !.keys = {}]
      /\ OnlyMoves(a) /\ th' \in [Threads -> Locals]
  <2>1. [th[a] EXCEPT !.pc = "walk", !.todo = Students \ {a}, !.keys = {}] \in Locals
    BY <1>1 DEF Locals
  <2> QED
    BY <1>1, <2>1 DEF PutRequest, Types, OnlyMoves
<1>3. /\ th'[a].pc = "walk" /\ th'[a].msg = r /\ th'[a].todo = Students \ {a}
      /\ th'[a].to = th[a].to /\ th'[a].text = th[a].text
  BY <1>1, <1>2 DEF Locals
<1>4. /\ DOMAIN posted' = DOMAIN posted \cup {r} /\ posted'[r] = a
      /\ \A q \in DOMAIN posted : posted'[q] = posted[q]
      /\ UNCHANGED <<drawn, answers, chars, count, sent, got>>
  BY <1>1 DEF PutRequest, Record, Put, history, record
<1>5. Grows
  BY <1>4 DEF Grows
<1>6. Types'
  <2>1. /\ \/ requests' = Put(requests, r, a)
           \/ requests' \in RacyPuts(requests, th[a].keys, r, a)
        /\ torn' = (torn \/ th[a].keys # DOMAIN requests)
    BY DEF PutRequest, Record, AfterPut
  <2> HIDE DEF r
  <2>2. /\ r \in DOMAIN requests' => requests'[r] = a
        /\ DOMAIN requests' \subseteq DOMAIN requests \cup {r}
        /\ \A q \in DOMAIN requests' :
             q # r => q \in DOMAIN requests /\ requests'[q] = requests[q]
    <3>1. CASE requests' = Put(requests, r, a)
      BY <3>1 DEF Put
    <3>2. CASE requests' \in RacyPuts(requests, th[a].keys, r, a)
      <4>1. PICK kept \in SUBSET (DOMAIN requests \cup {r}) :
              requests' = [x \in kept |-> Put(requests, r, a)[x]]
        BY <3>2 DEF RacyPuts
      <4> QED
        BY <4>1 DEF Put
    <3> QED
      BY <2>1, <3>1, <3>2
  <2>3. torn' = FALSE => DOMAIN requests' = DOMAIN requests \cup {r}
    <3>1. torn' = FALSE => th[a].keys = DOMAIN requests
      BY <2>1
    <3>2. torn' = FALSE => requests' = Put(requests, r, a)
      BY <2>1, <3>1 DEF AfterPut, RacyPuts
    <3> QED
      BY <3>2 DEF Put
  <2>4. /\ DOMAIN requests' \subseteq DOMAIN posted' /\ torn' \in BOOLEAN
        /\ \A q \in DOMAIN requests' : requests'[q] = posted'[q]
        /\ torn' = FALSE => DOMAIN posted' \subseteq DOMAIN requests'
    BY <1>1, <1>4, <2>1, <2>2, <2>3 DEF Types
  <2> QED
    BY <1>1, <1>2, <1>4, <2>4 DEF PutRequest, Types, history
<1> HIDE DEF r
<1>7. Ready'
  <2>1. AccountReady(a)'
    BY <1>1, <1>3, <1>4 DEF AccountReady, Appends, Displays
  <2>2. \A b \in Accounts \ {a} : th[b].pc = "put" => th[b].msg \notin DOMAIN posted'
    <3>1. \A b \in Accounts \ {a} : th[b].pc = "put" =>
            th[b].msg # r /\ th[b].msg \notin DOMAIN posted
      BY <1>1 DEF Inv, DistinctPuts, r, Ready, AccountReady
    <3> QED
      BY <1>4, <3>1
  <2>3. a \notin Uploads
    BY BoardAssumption DEF Accounts
  <2> QED
    BY <1>1, <1>2, <1>4, <1>5, <2>1, <2>2, <2>3, ReadyKept
<1>8. DistinctPuts'
  BY <1>1, <1>2, <1>3, PutsKept DEF Inv
<1>9. Boxes' /\ Shown'
  <2>1. a \in Students => AllMeant(posted, answers, a, th'[a].text)
    BY <1>3 DEF Inv, Shown
  <2> QED
    BY <1>1, <1>2, <1>4, <1>5, <2>1, BoxesKept, ShownKept DEF Inv
<1>10. SentSettled' /\ SentOnce'
  <2>1. ASSUME NEW u \in Students, NEW i \in 1..Len(sent[u]) PROVE sent[u][i] # r
    BY <1>1 DEF Inv, SentSettled, Settled, Meant
  <2> QED
    BY <1>1, <1>2, <1>3, <1>4, <1>5, <2>1, SettledKept DEF Inv
<1>11. Counted'
  BY <1>1, <1>2, <1>3, <1>4, CountedKept DEF Inv, Counted
<1> QED
  BY <1>6, <1>7, <1>8, <1>9, <1>10, <1>11 DEF Inv

(* The thread goes to the next mailbox (Server 271-273).                  *)
LEMMA WalkInv ==
  ASSUME Inv, NEW a \in Accounts, Walk(a)
  PROVE  Inv'
<1>1. /\ a \in Threads /\ th[a] \in Locals /\ a \notin Uploads
      /\ Types /\ AccountReady(a) /\ th[a].pc = "walk"
  BY ThreadFacts DEF Walk
<1>2. PICK u \in th[a].todo :
        th' = [th EXCEPT ![a].pc = "copy", ![a].todo = @ \ {u},
                         ![a].to = u, ![a].size = count[u]]
        /\ Enter(a, u)
  BY DEF Walk
<1>3. u \in Students /\ count[u] \in Nat
  BY <1>1 DEF Types, Locals
<1>4. /\ th'[a] = [th[a] EXCEPT !.pc = "copy", !.todo = @ \ {u}, !.to = u, !.size = count[u]]
      /\ OnlyMoves(a) /\ th' \in [Threads -> Locals]
  <2>1. [th[a] EXCEPT !.pc = "copy", !.todo = @ \ {u}, !.to = u, !.size = count[u]] \in Locals
    BY <1>1, <1>3 DEF Locals
  <2> QED
    BY <1>1, <1>2, <2>1 DEF Types, OnlyMoves
<1>5. /\ th'[a].pc = "copy" /\ th'[a].msg = th[a].msg /\ th'[a].todo = th[a].todo \ {u}
      /\ th'[a].to = u /\ th'[a].text = th[a].text
  BY <1>1, <1>4 DEF Locals
<1>6. overlap' \in [Students -> BOOLEAN]
  BY <1>1, <1>2, <1>3 DEF Enter, Types
<1>7. Types'
  BY <1>1, <1>4, <1>6 DEF Walk, Types, history, record
<1>8. AccountReady(a)'
  BY <1>1, <1>3, <1>5 DEF AccountReady, Walk, record, Appends, Displays
<1>9. DistinctPuts'
  BY <1>1, <1>4, <1>5, ThreadFacts, PutsKept
<1>10. \A v \in Students : \A i \in 1..Len(sent[v]) :
           th'[a].msg = sent[v][i] => v \notin th'[a].todo /\ th'[a].to # v
  BY <1>1, <1>5, NotSentAgain
<1>11. /\ \A v \in Students : count'[v] <= Len(sent[v])
       /\ UNCHANGED <<requests, posted, torn, answers, chars, sent, got, drawn>>
  BY ThreadFacts DEF Counted, Walk, history, record
<1> QED
  BY <1>1, <1>4, <1>5, <1>7, <1>8, <1>9, <1>10, <1>11, ThreadFacts, LocalStep DEF Shown

(* A thread that has nothing more to do, or can do no more.                *)
LEMMA RestInv ==
  ASSUME Inv, NEW t \in Threads, NEW p \in {"idle", "dead"},
         th' = [th EXCEPT ![t] = Thread(p)], th[t].pc # "done",
         t \in Uploads => p = "dead",
         UNCHANGED <<record, chars, count, drawn, answers, history, overlap>>
  PROVE  Inv'
<1>1. /\ Types /\ th'[t] = Thread(p) /\ OnlyMoves(t) /\ th' \in [Threads -> Locals]
  BY ThreadFacts, IdleLocals DEF Types, OnlyMoves
<1>2. /\ th'[t].pc = p /\ th'[t].msg = Nul /\ th'[t].todo = {}
      /\ th'[t].to = Nobody /\ th'[t].text = <<>>
  BY <1>1, IdleLocals
<1>3. Types'
  BY <1>1 DEF Types, history, record
<1>4. t \in Accounts => AccountReady(t)'
  BY <1>2 DEF AccountReady, Appends, Displays
<1>5. t \in Uploads => UploadReady(t)'
  BY <1>2 DEF UploadReady, Appends
<1>6. DistinctPuts'
  BY <1>1, <1>2, ThreadFacts, PutsKept
<1>7. \A u \in Students : \A i \in 1..Len(sent[u]) :
           th'[t].msg = sent[u][i] => u \notin th'[t].todo /\ th'[t].to # u
  BY <1>2, NotSentAgain
<1>8. /\ \A u \in Students : count'[u] <= Len(sent[u])
      /\ UNCHANGED <<requests, posted, torn, answers, chars, sent, got, drawn>>
  BY ThreadFacts DEF Counted, history, record
<1>9. AllMeant(posted, answers, t, th'[t].text)
  BY <1>2, NothingMeant
<1> QED
  BY <1>1, <1>2, <1>3, <1>4, <1>5, <1>6, <1>7, <1>8, <1>9, LocalStep

(* All mailboxes have the request.                                        *)
LEMMA WalkEndsInv ==
  ASSUME Inv, NEW a \in Accounts, WalkEnds(a)
  PROVE  Inv'
BY ThreadFacts, RestInv DEF WalkEnds

(* append throws when the array turns out to be full; the thread ends.    *)
LEMMA CopyThrowsInv ==
  ASSUME Inv, NEW t \in Threads, CopyThrows(t)
  PROVE  Inv'
BY RestInv DEF CopyThrows

(* An account without a mailbox asks for its messages: its thread ends.   *)
LEMMA DisplayNothingInv ==
  ASSUME Inv, NEW a \in Accounts, DisplayNothing(a)
  PROVE  Inv'
BY ThreadFacts, RestInv DEF DisplayNothing

-----------------------------------------------------------------------------
(* A thread that appends has a message that is meant for the mailbox it is *)
(* at.                                                                     *)
LEMMA AppenderFacts ==
  ASSUME Inv, NEW t \in Threads, th[t].pc \in Appends
  PROVE  /\ th[t].to \in Students /\ th[t].to # Nobody /\ th[t].to \notin th[t].todo
         /\ th[t].msg \in Messages
         /\ Meant(posted, answers, th[t].to, th[t].msg)
<1>1. CASE t \in Accounts
  <2>1. /\ th[t].msg \in DOMAIN posted /\ posted[th[t].msg] = t
        /\ th[t].to \in Students \ ({t} \cup th[t].todo)
    BY <1>1, ThreadFacts DEF AccountReady
  <2> QED
    BY <2>1, ThreadFacts, NamesAssumption DEF Meant, Types, Messages
<1>2. CASE t \in Uploads
  <2>1. /\ th[t].msg = t /\ t \in DOMAIN answers /\ answers[t] \in DOMAIN posted
        /\ th[t].to \in Students /\ posted[answers[t]] = th[t].to /\ th[t].todo = {}
    BY <1>2, ThreadFacts DEF UploadReady
  <2> QED
    BY <1>2, <2>1, NamesAssumption, BoardAssumption DEF Meant, Messages
<1> QED
  BY <1>1, <1>2 DEF Threads

(* append reads the count it will write back.                             *)
LEMMA ReadCountInv ==
  ASSUME Inv, NEW t \in Threads, ReadCount(t)
  PROVE  Inv'
<1> DEFINE u == th[t].to
<1>1. /\ th[t] \in Locals /\ Types /\ th[t].pc = "read" /\ u \in Students
      /\ t \in Accounts => t \notin Uploads /\ AccountReady(t)
      /\ t \in Uploads => t \notin Accounts /\ t \notin Students /\ UploadReady(t)
      /\ count[u] \in Nat /\ count[u] <= Len(sent[u])
  BY ThreadFacts, AppenderFacts DEF ReadCount, Appends, Types, Counted
<1>2. /\ th'[t] = [th[t] EXCEPT !.pc = "add", !.read = count[u]]
      /\ OnlyMoves(t) /\ th' \in [Threads -> Locals]
  <2>1. [th[t] EXCEPT !.pc = "add", !.read = count[u]] \in Locals
    BY <1>1 DEF Locals
  <2> QED
    BY <1>1, <2>1 DEF ReadCount, Types, OnlyMoves
<1>3. /\ th'[t].pc = "add" /\ th'[t].msg = th[t].msg /\ th'[t].todo = th[t].todo
      /\ th'[t].to = th[t].to /\ th'[t].text = th[t].text /\ th'[t].read = count[u]
  BY <1>1, <1>2 DEF Locals
<1> HIDE DEF u
<1>4. Types'
  BY <1>1, <1>2 DEF ReadCount, Types, history, record
<1>5. t \in Accounts => AccountReady(t)'
  BY <1>1, <1>3 DEF AccountReady, ReadCount, record, Appends, Displays
<1>6. t \in Uploads => UploadReady(t)'
  BY <1>1, <1>3 DEF UploadReady, ReadCount, record, Appends
<1>7. DistinctPuts'
  BY <1>2, <1>3, ThreadFacts, PutsKept
<1>8. \A v \in Students : \A i \in 1..Len(sent[v]) :
           th'[t].msg = sent[v][i] => v \notin th'[t].todo /\ th'[t].to # v
  BY <1>3, NotSentAgain
<1>9. /\ \A v \in Students : count'[v] <= Len(sent[v])
      /\ UNCHANGED <<requests, posted, torn, answers, chars, sent, got, drawn>>
  BY ThreadFacts DEF Counted, ReadCount, history, record
<1>10. th'[t].read <= Len(sent[th'[t].to])
  BY <1>1, <1>3 DEF u
<1>11. t \in Students => AllMeant(posted, answers, t, th'[t].text)
  BY <1>3, ThreadFacts DEF Shown
<1> QED
  BY <1>1, <1>2, <1>4, <1>5, <1>6, <1>7, <1>8, <1>9, <1>10, <1>11, LocalStep

(* append copies the message to where it saw the end.                     *)
LEMMA CopyInv ==
  ASSUME Inv, NEW t \in Threads, Copy(t)
  PROVE  Inv'
<1> DEFINE u == th[t].to
           m == th[t].msg
<1>1. /\ th[t] \in Locals /\ Types /\ th[t].pc = "copy" /\ u \in Students
      /\ m \in Messages /\ Meant(posted, answers, u, m)
      /\ t \in Accounts => t \notin Uploads /\ AccountReady(t)
      /\ t \in Uploads => t \notin Accounts /\ t \notin Students /\ UploadReady(t)
  BY ThreadFacts, AppenderFacts DEF Copy, Appends
<1>2. /\ th'[t] = [th[t] EXCEPT !.pc = "read"]
      /\ OnlyMoves(t) /\ th' \in [Threads -> Locals]
  <2>1. [th[t] EXCEPT !.pc = "read"] \in Locals
    BY <1>1 DEF Locals
  <2> QED
    BY <1>1, <2>1 DEF Copy, Types, OnlyMoves
<1>3. /\ th'[t].pc = "read" /\ th'[t].msg = th[t].msg /\ th'[t].todo = th[t].todo
      /\ th'[t].to = th[t].to /\ th'[t].text = th[t].text
  BY <1>1, <1>2 DEF Locals
<1>4. /\ chars' = [chars EXCEPT ![u][count[u] + 1] = m]
      /\ UNCHANGED <<requests, posted, torn, answers, sent, got, drawn, count, reads, overlap>>
  BY DEF Copy, history, record
<1> HIDE DEF u, m
<1>5. chars' \in [Students -> [Slots -> Messages \cup {Nul}]]
  BY <1>1, <1>4 DEF Types
<1>6. Types'
  BY <1>1, <1>2, <1>4, <1>5 DEF Types
<1>7. Grows
  BY <1>4 DEF Grows
<1>8. Ready'
  <2>1. t \in Accounts => AccountReady(t)'
    BY <1>1, <1>3, <1>4 DEF AccountReady, Appends, Displays
  <2>2. t \in Uploads => UploadReady(t)'
    BY <1>1, <1>3, <1>4 DEF UploadReady, Appends
  <2>3. \A a \in Accounts : th[a].pc = "put" => th[a].msg \notin DOMAIN posted'
    BY <1>4, ThreadFacts DEF AccountReady
  <2> QED
    BY <1>2, <1>4, <1>7, <2>1, <2>2, <2>3, ThreadFacts, ReadyKept
<1>9. Boxes'
  <2> SUFFICES ASSUME NEW v \in Students, NEW i \in Slots, chars'[v][i] # Nul
               PROVE  Meant(posted, answers, v, chars'[v][i])
    BY <1>4 DEF Boxes
  <2>1. CASE v = u /\ i = count[u] + 1
    BY <1>1, <1>4, <2>1 DEF Types
  <2>2. CASE ~(v = u /\ i = count[u] + 1)
    BY <1>1, <1>4, <2>2 DEF Types, Inv, Boxes
  <2> QED
    BY <2>1, <2>2
<1>10. t \in Students => AllMeant(posted, answers, t, th'[t].text)
  BY <1>3, ThreadFacts DEF Shown
<1>11. Shown' /\ DistinctPuts'
  BY <1>2, <1>3, <1>4, <1>7, <1>10, ThreadFacts, PutsKept, ShownKept
<1>12. SentSettled' /\ SentOnce'
  <2>1. \A v \in Students : \A i \in 1..Len(sent[v]) :
           th'[t].msg = sent[v][i] => v \notin th'[t].todo /\ th'[t].to # v
    BY <1>3, NotSentAgain
  <2> QED
    BY <1>1, <1>2, <1>4, <1>7, <2>1, SettledKept DEF Inv
<1>13. Counted'
  <2>1. \A v \in Students : count'[v] <= Len(sent[v])
    BY <1>4, ThreadFacts DEF Counted
  <2> QED
    BY <1>2, <1>3, <1>4, <2>1, ThreadFacts, CountedKept
<1> QED
  BY <1>6, <1>8, <1>9, <1>11, <1>12, <1>13 DEF Inv

(* append writes back the count it read, plus one: the message is now     *)
(* among those appended, and this thread is done with the mailbox.        *)
LEMMA AddCountInv ==
  ASSUME Inv, NEW t \in Threads, AddCount(t)
  PROVE  Inv'
<1> DEFINE u == th[t].to
           m == th[t].msg
           p == IF t \in Uploads THEN "done" ELSE "walk"
           L == [th[t] EXCEPT !.pc = p, !.to = Nobody, !.size = 0, !.read = 0]
           n == Len(sent[u])
<1>1. /\ th[t] \in Locals /\ Types /\ th[t].pc = "add" /\ u \in Students /\ u \notin th[t].todo
      /\ m \in Messages /\ Meant(posted, answers, u, m)
      /\ th[t].read \in Nat /\ th[t].read <= n
      /\ t \in Accounts => t \notin Uploads /\ AccountReady(t)
      /\ t \in Uploads => t \notin Accounts /\ t \notin Students /\ UploadReady(t)
  BY ThreadFacts, AppenderFacts DEF AddCount, Appends, Locals, Counted
<1>2. th'[t] = L /\ OnlyMoves(t) /\ th' \in [Threads -> Locals]
  <2>1. L \in Locals
    BY <1>1 DEF Locals
  <2> QED
    BY <1>1, <2>1 DEF AddCount, Types, OnlyMoves
<1>3. /\ th'[t].pc = p /\ th'[t].msg = m /\ m = th[t].msg /\ th'[t].todo = th[t].todo
      /\ th'[t].to = Nobody /\ th'[t].text = th[t].text
  BY <1>1, <1>2 DEF Locals
<1>4. /\ count' = [count EXCEPT ![u] = th[t].read + 1]
      /\ sent' = [sent EXCEPT ![u] = Append(sent[u], m)]
      /\ UNCHANGED <<requests, posted, torn, answers, chars, got, drawn, reads, overlap>>
  BY <1>1 DEF AddCount, Types, record
<1>5. /\ sent[u] \in Seq(Messages) /\ n \in Nat
      /\ sent'[u] = Append(sent[u], m)
      /\ \A v \in Students \ {u} : sent'[v] = sent[v] /\ count'[v] = count[v]
      /\ count'[u] = th[t].read + 1
  BY <1>1, <1>4 DEF Types
<1>6. /\ sent'[u] \in Seq(Messages) /\ Len(sent'[u]) = n + 1 /\ sent'[u][n + 1] = m
      /\ \A i \in 1..n : sent'[u][i] = sent[u][i]
  BY <1>1, <1>5
<1> HIDE DEF u, m, L, n
<1>7. Types'
  <2>1. sent' \in [Students -> Seq(Messages)]
    BY <1>1, <1>4, <1>5, <1>6 DEF Types
  <2>2. count' \in [Students -> Nat]
    BY <1>1, <1>4 DEF Types
  <2> QED
    BY <1>1, <1>2, <1>4, <2>1, <2>2 DEF Types
<1>8. Grows
  BY <1>4 DEF Grows
<1>9. Ready'
  <2>1. t \in Accounts => AccountReady(t)'
    BY <1>1, <1>3, <1>4 DEF AccountReady, Appends, Displays
  <2>2. t \in Uploads => UploadReady(t)'
    BY <1>1, <1>3, <1>4 DEF UploadReady, Appends
  <2>3. \A a \in Accounts : th[a].pc = "put" => th[a].msg \notin DOMAIN posted'
    BY <1>4, ThreadFacts DEF AccountReady
  <2> QED
    BY <1>2, <1>4, <1>8, <2>1, <2>2, <2>3, ThreadFacts, ReadyKept
<1>10. Boxes' /\ DistinctPuts'
  BY <1>2, <1>3, <1>4, <1>8, ThreadFacts, PutsKept, BoxesKept DEF Inv
<1>11. Shown'
  <2>1. t \in Students => AllMeant(posted, answers, t, th'[t].text)
    BY <1>3, ThreadFacts DEF Shown
  <2> QED
    BY <1>2, <1>4, <1>8, <2>1, ThreadFacts, ShownKept
<1>12. \A i \in 1..n : sent[u][i] # m
  BY <1>1 DEF Inv, SentSettled, Settled, u, m, n
<1>13. SentOnce'
  <2>1. ASSUME NEW v \in Students, NEW i \in 1..Len(sent'[v]), NEW j \in 1..Len(sent'[v]),
               i # j, v = u
        PROVE  sent'[v][i] # sent'[v][j]
    <3>1. CASE i = n + 1
      BY <1>5, <1>6, <1>12, <2>1, <3>1
    <3>2. CASE j = n + 1
      BY <1>5, <1>6, <1>12, <2>1, <3>2
    <3>3. CASE i \in 1..n /\ j \in 1..n
      BY <1>6, <2>1, <3>3 DEF Inv, SentOnce, n
    <3> QED
      BY <1>5, <1>6, <2>1, <3>1, <3>2, <3>3
  <2>2. ASSUME NEW v \in Students, NEW i \in 1..Len(sent'[v]), NEW j \in 1..Len(sent'[v]),
               i # j, v # u
        PROVE  sent'[v][i] # sent'[v][j]
    BY <1>5, <2>2 DEF Inv, SentOnce
  <2> QED
    BY <2>1, <2>2 DEF SentOnce
<1>14. ASSUME NEW v \in Students, NEW k \in Messages,
              Settled(posted, answers, th, v, k)
       PROVE  Settled(posted', answers', th', v, k)
  <2>1. ASSUME NEW s \in Threads, th'[s].msg = k
        PROVE  v \notin th'[s].todo /\ th'[s].to # v
    BY <1>2, <1>3, <1>14, <2>1, NamesAssumption DEF Settled, OnlyMoves, m
  <2>2. k \in Uploads => th'[k].pc = "done"
    BY <1>1, <1>2, <1>14 DEF Settled, OnlyMoves, Threads
  <2> QED
    BY <1>4, <1>14, <2>1, <2>2 DEF Settled
<1>15. Settled(posted', answers', th', u, m)
  <2>1. ASSUME NEW s \in Threads, th'[s].msg = m
        PROVE  u \notin th'[s].todo /\ th'[s].to # u
    <3>1. CASE s = t
      BY <1>1, <1>3, <3>1, NamesAssumption
    <3>2. CASE s # t /\ s \in Accounts
      <4>1. th'[s] = th[s] /\ AccountReady(s)
        BY <1>2, <3>2, ThreadFacts DEF OnlyMoves
      <4>0. th[s].pc \in {"idle", "put", "walk", "dead"} \cup Appends \cup Displays
        BY <4>1, ThreadFacts DEF Locals, AccountReady, Appends, Displays
      <4>2. m # Nul
        BY <1>1, NamesAssumption
      <4>3. CASE t \in Accounts
        <5>1. m \in DOMAIN posted /\ posted[m] = t
          BY <1>1, <4>3 DEF AccountReady, Appends, m
        <5>2. th[s].todo = {} /\ th[s].to = Nobody
          BY <2>1, <3>2, <4>0, <4>1, <4>2, <5>1 DEF AccountReady, Appends, Displays
        <5> QED
          BY <1>1, <4>1, <5>2, NamesAssumption
      <4>4. CASE t \in Uploads
        <5>1. m \in Uploads
          BY <1>1, <4>4 DEF UploadReady, Appends, m
        <5>2. th[s].todo = {} /\ th[s].to = Nobody
          <6>1. m \notin Requests
            BY <5>1, BoardAssumption
          <6>2. th[s].pc \in {"put", "walk"} \cup Appends => th[s].msg \in Requests
            BY <4>1, ThreadFacts DEF AccountReady, Types
          <6> QED
            BY <2>1, <4>0, <4>1, <4>2, <6>1, <6>2 DEF AccountReady, Appends, Displays
        <5> QED
          BY <1>1, <4>1, <5>2, NamesAssumption
      <4> QED
        BY <4>3, <4>4 DEF Threads
    <3>3. CASE s # t /\ s \in Uploads
      <4>1. th'[s] = th[s] /\ UploadReady(s)
        BY <1>2, <3>3, ThreadFacts DEF OnlyMoves
      <4>2. th[s].msg \in {Nul, s}
        BY <4>1 DEF UploadReady
      <4>3. m # Nul
        BY <1>1, NamesAssumption
      <4>4. m = s
        BY <2>1, <4>1, <4>2, <4>3
      <4>5. CASE t \in Accounts
        <5>1. m \in Requests
          BY <1>1, <4>5 DEF AccountReady, Appends, m, Types
        <5> QED
          BY <3>3, <4>4, <5>1, BoardAssumption
      <4>6. CASE t \in Uploads
        BY <1>1, <3>3, <4>4, <4>6 DEF UploadReady, Appends, m
      <4> QED
        BY <4>5, <4>6 DEF Threads
    <3> QED
      BY <3>1, <3>2, <3>3 DEF Threads
  <2>2. ASSUME m \in Uploads PROVE th'[m].pc = "done"
    <3>1. CASE t \in Accounts
      BY <1>1, <2>2, <3>1, BoardAssumption DEF AccountReady, Appends, m, Types
    <3>2. CASE t \in Uploads
      BY <1>1, <1>3, <3>2 DEF UploadReady, Appends, m
    <3> QED
      BY <3>1, <3>2 DEF Threads
  <2> QED
    BY <1>1, <1>4, <2>1, <2>2 DEF Settled
<1>16. SentSettled'
  <2>1. ASSUME NEW v \in Students, NEW i \in 1..Len(sent'[v])
        PROVE  Settled(posted', answers', th', v, sent'[v][i])
    <3>1. CASE v = u /\ i = n + 1
      BY <1>6, <1>15, <3>1
    <3>2. CASE ~(v = u /\ i = n + 1)
      <4>1. i \in 1..Len(sent[v]) /\ sent'[v][i] = sent[v][i]
        <5>1. CASE v = u
          BY <1>5, <1>6, <3>2, <5>1 DEF n
        <5>2. CASE v # u
          BY <1>5, <5>2
        <5> QED
          BY <5>1, <5>2
      <4>2. Settled(posted, answers, th, v, sent[v][i]) /\ sent[v][i] \in Messages
        BY <1>1, <4>1 DEF Inv, SentSettled, Types
      <4> QED
        BY <1>14, <4>1, <4>2
    <3> QED
      BY <3>1, <3>2
  <2> QED
    BY <2>1 DEF SentSettled
<1>17. Counted'
  <2>0. \A v \in Students : sent[v] \in Seq(Messages) /\ sent'[v] \in Seq(Messages)
    BY <1>1, <1>7 DEF Types
  <2>1. \A v \in Students :
          /\ Len(sent[v]) \in Nat /\ Len(sent'[v]) \in Nat
          /\ Len(sent[v]) <= Len(sent'[v])
    BY <1>5, <1>6, <2>0 DEF n
  <2>2. ASSUME NEW v \in Students PROVE count'[v] <= Len(sent'[v])
    <3>1. CASE v = u
      BY <1>1, <1>5, <1>6, <3>1
    <3>2. CASE v # u
      BY <1>5, <3>2, ThreadFacts DEF Counted
    <3> QED
      BY <3>1, <3>2
  <2>3. ASSUME NEW s \in Threads, th'[s].pc \in {"add", "reply"}
        PROVE  th'[s].read <= Len(sent'[th'[s].to])
    <3>1. s # t /\ th'[s] = th[s]
      BY <1>2, <1>3, <2>3 DEF OnlyMoves
    <3>2. th[s].to \in Students
      BY <2>3, <3>1, ThreadFacts, AppenderFacts DEF AccountReady, UploadReady, Appends, Displays, Threads
    <3>3. th[s].read <= Len(sent[th[s].to]) /\ th[s].read \in Nat
      BY <2>3, <3>1, ThreadFacts DEF Counted, Locals
    <3> QED
      BY <2>1, <3>1, <3>2, <3>3
  <2> QED
    BY <2>2, <2>3 DEF Counted
<1> QED
  BY <1>7, <1>9, <1>10, <1>11, <1>13, <1>16, <1>17 DEF Inv

-----------------------------------------------------------------------------
(* Reading and emptying a mailbox.                                         *)
LEMMA UnreadFacts ==
  ASSUME Inv, NEW u \in Students
  PROVE  /\ Unread(u) \in Seq(Messages \cup {Nul})
         /\ AllMeant(posted, answers, u, Unread(u))
<1> DEFINE c == chars[u]
           n == count[u]
<1>1. /\ n \in 0..Cardinality(Messages) /\ Cardinality(Messages) \in Nat
      /\ c \in [1..Cardinality(Messages) -> Messages \cup {Nul}]
  <2>1. n \in 0..Cardinality(Messages)
    BY Bounded
  <2>2. Cardinality(Messages) \in Nat
    BY BoardAssumption, FS_Union, FS_CardinalityType DEF Messages
  <2> QED
    BY <2>1, <2>2, ThreadFacts DEF Types, Slots
<1>2. Unread(u) = [i \in 1..n |-> c[i]]
  BY <1>1 DEF Unread
<1>3. \A i \in 1..n : i \in Slots /\ c[i] \in Messages \cup {Nul}
  BY <1>1 DEF Slots
<1>4. \A i \in 1..n : c[i] # Nul => Meant(posted, answers, u, c[i])
  BY <1>3 DEF Inv, Boxes
<1> HIDE DEF c, n
<1>5. Unread(u) \in Seq(Messages \cup {Nul}) /\ Len(Unread(u)) = n
  BY <1>1, <1>2, <1>3
<1> QED
  BY <1>2, <1>4, <1>5 DEF AllMeant

(* toString takes what is counted (Server 282).                           *)
LEMMA DisplayInv ==
  ASSUME Inv, NEW u \in Accounts, Display(u)
  PROVE  Inv'
<1> DEFINE L == [th[u] EXCEPT !.pc = "clear", !.to = u, !.text = Unread(u)]
<1>1. /\ u \in Threads /\ th[u] \in Locals /\ u \notin Uploads /\ u \in Students
      /\ Types /\ AccountReady(u) /\ th[u].pc = "idle"
  BY ThreadFacts DEF Display
<1>2. th'[u] = L /\ OnlyMoves(u) /\ th' \in [Threads -> Locals]
  <2>1. L \in Locals
    BY <1>1, UnreadFacts DEF Locals
  <2> QED
    BY <1>1, <2>1 DEF Display, Types, OnlyMoves
<1>3. /\ th'[u].pc = "clear" /\ th'[u].msg = th[u].msg /\ th'[u].todo = th[u].todo
      /\ th'[u].to = u /\ th'[u].text = Unread(u)
  BY <1>1, <1>2 DEF Locals
<1> HIDE DEF L
<1>4. reads' \in [Students -> 0..MaxReads]
  BY <1>1, BoardAssumption DEF Display, Types
<1>5. overlap' \in [Students -> BOOLEAN]
  BY <1>1 DEF Display, Enter, Types
<1>6. Types'
  BY <1>1, <1>2, <1>4, <1>5 DEF Display, Types, record
<1>7. AccountReady(u)'
  BY <1>1, <1>3 DEF AccountReady, Appends, Displays
<1>8. DistinctPuts'
  BY <1>1, <1>2, <1>3, ThreadFacts, PutsKept
<1>9. \A v \in Students : \A i \in 1..Len(sent[v]) :
           th'[u].msg = sent[v][i] => v \notin th'[u].todo /\ th'[u].to # v
  BY <1>1, <1>3, NotSentAgain DEF AccountReady
<1>10. /\ \A v \in Students : count'[v] <= Len(sent[v])
       /\ UNCHANGED <<requests, posted, torn, answers, chars, sent, got, drawn>>
  BY ThreadFacts DEF Counted, Display, record
<1>11. AllMeant(posted, answers, u, th'[u].text)
  BY <1>1, <1>3, UnreadFacts
<1> QED
  BY <1>1, <1>2, <1>3, <1>6, <1>7, <1>8, <1>9, <1>10, <1>11, LocalStep

(* setLength(0) empties the mailbox (Server 283).                         *)
LEMMA ClearInv ==
  ASSUME Inv, NEW u \in Accounts, Clear(u)
  PROVE  Inv'
<1>1. /\ u \in Threads /\ th[u] \in Locals /\ u \notin Uploads /\ u \in Students
      /\ Types /\ AccountReady(u) /\ th[u].pc = "clear"
  BY ThreadFacts DEF Clear, AccountReady, Displays
<1>2. /\ th'[u] = [th[u] EXCEPT !.pc = "again"]
      /\ OnlyMoves(u) /\ th' \in [Threads -> Locals]
  <2>1. [th[u] EXCEPT !.pc = "again"] \in Locals
    BY <1>1 DEF Locals
  <2> QED
    BY <1>1, <2>1 DEF Clear, Types, OnlyMoves
<1>3. /\ th'[u].pc = "again" /\ th'[u].msg = th[u].msg /\ th'[u].todo = th[u].todo
      /\ th'[u].to = th[u].to /\ th'[u].text = th[u].text
  BY <1>1, <1>2 DEF Locals
<1>4. count' = [count EXCEPT ![u] = 0]
  BY DEF Clear
<1>5. Types'
  BY <1>1, <1>2, <1>4 DEF Clear, Types, history, record
<1>6. AccountReady(u)'
  BY <1>1, <1>3 DEF AccountReady, Appends, Displays
<1>7. DistinctPuts'
  BY <1>1, <1>2, <1>3, ThreadFacts, PutsKept
<1>8. \A v \in Students : \A i \in 1..Len(sent[v]) :
           th'[u].msg = sent[v][i] => v \notin th'[u].todo /\ th'[u].to # v
  BY <1>1, <1>3, NotSentAgain
<1>9. \A v \in Students : count'[v] <= Len(sent[v])
  BY <1>1, <1>4, ThreadFacts DEF Counted, Types
<1>10. UNCHANGED <<requests, posted, torn, answers, chars, sent, got, drawn>>
  BY DEF Clear, history, record
<1>11. AllMeant(posted, answers, u, th'[u].text)
  BY <1>1, <1>3, ThreadFacts DEF Shown
<1> QED
  BY <1>1, <1>2, <1>3, <1>5, <1>6, <1>7, <1>8, <1>9, <1>10, <1>11, LocalStep

(* append of the empty string reads the count (Server 284) ...            *)
LEMMA ReadAgainInv ==
  ASSUME Inv, NEW u \in Accounts, ReadAgain(u)
  PROVE  Inv'
<1>1. /\ u \in Threads /\ th[u] \in Locals /\ u \notin Uploads /\ u \in Students
      /\ Types /\ AccountReady(u) /\ th[u].pc = "again" /\ th[u].to = u
      /\ count[u] \in Nat /\ count[u] <= Len(sent[u])
  BY ThreadFacts DEF ReadAgain, AccountReady, Displays, Counted, Types
<1>2. /\ th'[u] = [th[u] EXCEPT !.pc = "reply", !.read = count[u]]
      /\ OnlyMoves(u) /\ th' \in [Threads -> Locals]
  <2>1. [th[u] EXCEPT !.pc = "reply", !.read = count[u]] \in Locals
    BY <1>1 DEF Locals
  <2> QED
    BY <1>1, <2>1 DEF ReadAgain, Types, OnlyMoves
<1>3. /\ th'[u].pc = "reply" /\ th'[u].msg = th[u].msg /\ th'[u].todo = th[u].todo
      /\ th'[u].to = th[u].to /\ th'[u].text = th[u].text /\ th'[u].read = count[u]
  BY <1>1, <1>2 DEF Locals
<1>4. Types'
  BY <1>1, <1>2 DEF ReadAgain, Types, history, record
<1>5. AccountReady(u)'
  BY <1>1, <1>3 DEF AccountReady, Appends, Displays
<1>6. DistinctPuts'
  BY <1>1, <1>2, <1>3, ThreadFacts, PutsKept
<1>7. \A v \in Students : \A i \in 1..Len(sent[v]) :
           th'[u].msg = sent[v][i] => v \notin th'[u].todo /\ th'[u].to # v
  BY <1>1, <1>3, NotSentAgain
<1>8. /\ \A v \in Students : count'[v] <= Len(sent[v])
      /\ UNCHANGED <<requests, posted, torn, answers, chars, sent, got, drawn>>
  BY ThreadFacts DEF Counted, ReadAgain, history, record
<1>9. AllMeant(posted, answers, u, th'[u].text) /\ th'[u].read <= Len(sent[th'[u].to])
  BY <1>1, <1>3, ThreadFacts DEF Shown
<1> QED
  BY <1>1, <1>2, <1>4, <1>5, <1>6, <1>7, <1>8, <1>9, LocalStep

(* ... and writes it back; what was taken is shown to the student (Server *)
(* 284-286).                                                              *)
LEMMA WriteAgainInv ==
  ASSUME Inv, NEW u \in Accounts, WriteAgain(u)
  PROVE  Inv'
<1> DEFINE g == got[u]
           x == th[u].text
           r == th[u].read
<1>1. /\ u \in Threads /\ th[u] \in Locals /\ u \notin Uploads /\ u \in Students
      /\ Types /\ AccountReady(u) /\ th[u].pc = "reply" /\ th[u].to = u
      /\ r \in Nat /\ r <= Len(sent[u])
  BY ThreadFacts DEF WriteAgain, AccountReady, Displays, Counted, Locals
<1>2. /\ g \in Seq(Messages \cup {Nul}) /\ x \in Seq(Messages \cup {Nul})
      /\ AllMeant(posted, answers, u, g) /\ AllMeant(posted, answers, u, x)
  BY <1>1, ThreadFacts DEF Types, Locals, Shown
<1>3. /\ th'[u] = Thread("idle") /\ OnlyMoves(u) /\ th' \in [Threads -> Locals]
  BY <1>1, IdleLocals DEF WriteAgain, Types, OnlyMoves
<1>4. /\ th'[u].pc = "idle" /\ th'[u].msg = Nul /\ th'[u].todo = {}
      /\ th'[u].to = Nobody /\ th'[u].text = <<>>
  BY <1>3, IdleLocals
<1>5. /\ count' = [count EXCEPT ![u] = r] /\ got' = [got EXCEPT ![u] = g \o x]
      /\ UNCHANGED <<requests, posted, torn, chars, drawn, answers, sent, reads, overlap>>
  BY <1>1 DEF WriteAgain, Types, record
<1> HIDE DEF g, x, r
<1>6. g \o x \in Seq(Messages \cup {Nul})
  BY <1>2
<1>7. Types'
  BY <1>1, <1>3, <1>5, <1>6 DEF Types
<1>8. Grows
  BY <1>5 DEF Grows
<1>9. Ready'
  <2>1. AccountReady(u)'
    BY <1>4 DEF AccountReady, Appends, Displays
  <2>2. \A a \in Accounts : th[a].pc = "put" => th[a].msg \notin DOMAIN posted'
    BY <1>5, ThreadFacts DEF AccountReady
  <2> QED
    BY <1>1, <1>3, <1>5, <1>8, <2>1, <2>2, ThreadFacts, ReadyKept
<1>10. Boxes' /\ DistinctPuts'
  BY <1>1, <1>3, <1>4, <1>5, <1>8, ThreadFacts, PutsKept, BoxesKept DEF Inv
<1>11. Shown'
  <2>1. AllMeant(posted, answers, u, g \o x)
    <3> SUFFICES ASSUME NEW i \in 1..Len(g \o x), (g \o x)[i] # Nul
                 PROVE  Meant(posted, answers, u, (g \o x)[i])
      BY DEF AllMeant
    <3>1. CASE i <= Len(g)
      <4>1. i \in 1..Len(g) /\ (g \o x)[i] = g[i]
        BY <1>2, <3>1
      <4> QED
        BY <1>2, <4>1 DEF AllMeant
    <3>2. CASE i > Len(g)
      <4>1. i - Len(g) \in 1..Len(x) /\ (g \o x)[i] = x[i - Len(g)]
        BY <1>2, <3>2
      <4> QED
        BY <1>2, <4>1 DEF AllMeant
    <3> QED
      BY <1>2, <3>1, <3>2
  <2>2. got'[u] = g \o x /\ \A v \in Students \ {u} : got'[v] = got[v]
    BY <1>1, <1>5 DEF Types
  <2>3. \A v \in Students : AllMeant(posted, answers, v, got'[v])
    BY <2>1, <2>2, ThreadFacts DEF Shown
  <2>4. \A v \in Students : AllMeant(posted, answers, v, th'[v].text)
    BY <1>3, <1>4, NothingMeant, ThreadFacts DEF Shown, OnlyMoves
  <2> QED
    BY <1>5, <2>3, <2>4 DEF Shown
<1>12. SentSettled' /\ SentOnce'
  <2>1. \A v \in Students : \A i \in 1..Len(sent[v]) :
           th'[u].msg = sent[v][i] => v \notin th'[u].todo /\ th'[u].to # v
    BY <1>1, <1>4, NotSentAgain
  <2> QED
    BY <1>1, <1>3, <1>5, <1>8, <2>1, SettledKept DEF Inv
<1>13. Counted'
  <2>1. \A v \in Students : count'[v] <= Len(sent[v])
    BY <1>1, <1>5, ThreadFacts DEF Counted, Types
  <2> QED
    BY <1>1, <1>3, <1>4, <1>5, <2>1, ThreadFacts, CountedKept
<1> QED
  BY <1>7, <1>9, <1>10, <1>11, <1>12, <1>13 DEF Inv

-----------------------------------------------------------------------------
(* The uploads that answer.                                                *)
LEMMA AnswerInv ==
  ASSUME Inv, NEW k \in Uploads, NEW r \in Requests, Answer(k, r)
  PROVE  Inv'
<1>1. /\ k \in Threads /\ th[k] \in Locals /\ k \notin Accounts /\ k \notin Students
      /\ Types /\ UploadReady(k) /\ th[k].pc = "idle" /\ k \notin DOMAIN answers
      /\ r \in DOMAIN posted /\ k \in Messages
  BY ThreadFacts DEF Answer, UploadReady, Messages, Types
<1>2. /\ th'[k] = [th[k] EXCEPT !.pc = "notify", !.msg = k]
      /\ OnlyMoves(k) /\ th' \in [Threads -> Locals]
  <2>1. [th[k] EXCEPT !.pc = "notify", !.msg = k] \in Locals
    BY <1>1 DEF Locals
  <2> QED
    BY <1>1, <2>1 DEF Answer, Types, OnlyMoves
<1>3. /\ th'[k].pc = "notify" /\ th'[k].msg = k /\ th'[k].todo = th[k].todo
      /\ th'[k].to = th[k].to
  BY <1>1, <1>2 DEF Locals
<1>4. /\ DOMAIN answers' = DOMAIN answers \cup {k} /\ answers'[k] = r
      /\ \A l \in DOMAIN answers : answers'[l] = answers[l]
      /\ UNCHANGED <<drawn, requests, posted, torn, chars, count, sent, got, reads, overlap>>
  BY <1>1 DEF Answer, Put, history, record
<1>5. Grows
  BY <1>4 DEF Grows
<1>6. Types'
  BY <1>1, <1>2, <1>4 DEF Types
<1>7. Ready'
  <2>1. UploadReady(k)'
    BY <1>1, <1>3, <1>4 DEF UploadReady, Appends
  <2>2. \A b \in Accounts : th[b].pc = "put" => th[b].msg \notin DOMAIN posted'
    BY <1>4, ThreadFacts DEF AccountReady
  <2> QED
    BY <1>1, <1>2, <1>4, <1>5, <2>1, <2>2, ThreadFacts, ReadyKept
<1>8. DistinctPuts'
  BY <1>1, <1>2, <1>3, ThreadFacts, PutsKept
<1>9. Boxes' /\ Shown'
  BY <1>1, <1>2, <1>4, <1>5, ThreadFacts, BoxesKept, ShownKept DEF Inv
<1>10. SentSettled' /\ SentOnce'
  <2>1. \A u \in Students : th'[k].to # u /\ u \notin th'[k].todo
    BY <1>1, <1>3, NamesAssumption DEF UploadReady, Appends
  <2> QED
    BY <1>1, <1>2, <1>4, <1>5, <2>1, SettledKept DEF Inv
<1>11. Counted'
  BY <1>1, <1>2, <1>3, <1>4, ThreadFacts, CountedKept DEF Counted
<1> QED
  BY <1>6, <1>7, <1>8, <1>9, <1>10, <1>11 DEF Inv

(* The thread of the upload goes to the mailbox of who asked (Server      *)
(* 377-379).                                                              *)
LEMMA NotifyInv ==
  ASSUME Inv, NEW k \in Uploads, Notify(k)
  PROVE  Inv'
<1> DEFINE u == posted[answers[k]]
<1>1. /\ k \in Threads /\ th[k] \in Locals /\ k \notin Accounts /\ k \notin Students
      /\ Types /\ UploadReady(k) /\ th[k].pc = "notify"
      /\ k \in DOMAIN answers /\ answers[k] \in DOMAIN posted /\ th[k].msg = k
  BY ThreadFacts DEF Notify, UploadReady
<1>2. CASE th' = [th EXCEPT ![k] = Thread("dead")] /\ UNCHANGED overlap
  BY <1>1, <1>2, RestInv DEF Notify
<1>3. CASE ~(th' = [th EXCEPT ![k] = Thread("dead")] /\ UNCHANGED overlap)
  <2>0. PICK w \in Posters(answers[k]) :
          /\ th' = [th EXCEPT ![k].pc = "copy", ![k].to = w, ![k].size = count[w]]
          /\ Enter(k, w)
    BY <1>3 DEF Notify
  <2>1. /\ u \in Students
        /\ th' = [th EXCEPT ![k].pc = "copy", ![k].to = u, ![k].size = count[u]]
        /\ Enter(k, u)
    BY <1>1, <2>0 DEF Posters, Types
  <2>2. count[u] \in Nat
    BY <1>1, <2>1 DEF Types
  <2>3. /\ th'[k] = [th[k] EXCEPT !.pc = "copy", !.to = u, !.size = count[u]]
        /\ OnlyMoves(k) /\ th' \in [Threads -> Locals]
    <3>1. [th[k] EXCEPT !.pc = "copy", !.to = u, !.size = count[u]] \in Locals
      BY <1>1, <2>1, <2>2 DEF Locals
    <3> QED
      BY <1>1, <2>1, <3>1 DEF Types, OnlyMoves
  <2>4. /\ th'[k].pc = "copy" /\ th'[k].msg = k /\ th'[k].todo = {} /\ th'[k].to = u
    BY <1>1, <2>3 DEF Locals, UploadReady
  <2>5. overlap' \in [Students -> BOOLEAN]
    BY <1>1, <2>1 DEF Enter, Types
  <2>6. /\ UNCHANGED <<requests, posted, torn, answers, chars, sent, got, drawn, count, reads>>
        /\ \A v \in Students : count'[v] <= Len(sent[v])
    BY ThreadFacts DEF Counted, Notify, history, record
  <2>7. Types'
    BY <1>1, <2>3, <2>5, <2>6 DEF Types
  <2>8. UploadReady(k)'
    BY <1>1, <2>1, <2>4, <2>6 DEF UploadReady, Appends
  <2>9. DistinctPuts'
    BY <1>1, <2>3, <2>4, ThreadFacts, PutsKept
  <2>10. \A v \in Students : \A i \in 1..Len(sent[v]) : th'[k].msg # sent[v][i]
    BY <1>1, <2>4 DEF Inv, SentSettled, Settled
  <2> QED
    BY <1>1, <2>3, <2>4, <2>6, <2>7, <2>8, <2>9, <2>10, LocalStep
<1> QED
  BY <1>2, <1>3

-----------------------------------------------------------------------------

(* Nothing was requested, appended or shown.                              *)
LEMMA InitInv == Init => Inv
<1> SUFFICES ASSUME Init PROVE Inv
  OBVIOUS
<1>1. /\ DOMAIN posted = {} /\ DOMAIN answers = {}
      /\ th = [t \in Threads |-> Thread("idle")]
  BY DEF Init, EmptyMap
<1>2. Types
  <2>1. <<>> \in Seq(Messages) /\ <<>> \in Seq(Messages \cup {Nul})
    OBVIOUS
  <2>2. th \in [Threads -> Locals]
    BY <1>1, IdleLocals
  <2>3. 0 \in 0..MaxReads
    BY BoardAssumption
  <2> QED
    BY <1>1, <2>1, <2>2, <2>3 DEF Init, Types
<1>3. \A t \in Threads : th[t] = Thread("idle")
  BY <1>1
<1>4. Ready /\ DistinctPuts
  BY <1>1, <1>3, IdleLocals
     DEF Ready, AccountReady, UploadReady, DistinctPuts, Appends, Displays, Threads
<1>5. Boxes
  BY DEF Init, Boxes
<1>6. Shown
  <2>1. \A u \in Students : got[u] = <<>> /\ th[u].text = <<>>
    BY <1>3, IdleLocals DEF Init, Threads, Accounts
  <2> QED
    BY <2>1, NothingMeant DEF Shown
<1>7. SentSettled /\ SentOnce
  BY DEF Init, SentSettled, SentOnce
<1>8. Counted
  <2>1. \A u \in Students : count[u] = 0 /\ Len(sent[u]) = 0
    BY DEF Init
  <2> QED
    BY <1>3, <2>1, IdleLocals DEF Counted
<1> QED
  BY <1>2, <1>4, <1>5, <1>6, <1>7, <1>8 DEF Inv

(* Every step keeps the invariant: the steps of the accounts, of the      *)
(* appenders and of the uploads are the lemmas above.                     *)
LEMMA NextInv == Inv /\ [Next]_vars => Inv'
<1> SUFFICES ASSUME Inv, [Next]_vars PROVE Inv'
  OBVIOUS
<1>1. ASSUME NEW a \in Accounts, Account(a) PROVE Inv'
  BY <1>1, ThreadFacts, PutRequestInv, WalkInv, WalkEndsInv, CopyInv, CopyThrowsInv,
     ReadCountInv, AddCountInv, ClearInv, ReadAgainInv, WriteAgainInv
     DEF Account, Appending
<1>2. ASSUME NEW a \in Accounts,
             Display(a) \/ DisplayNothing(a) \/ \E r \in Requests : Post(a, r)
      PROVE  Inv'
  BY <1>2, DisplayInv, DisplayNothingInv, PostInv
<1>3. ASSUME NEW k \in Uploads, Upload(k) \/ \E r \in Requests : Answer(k, r)
      PROVE  Inv'
  BY <1>3, ThreadFacts, NotifyInv, AnswerInv, CopyInv, CopyThrowsInv, ReadCountInv,
     AddCountInv DEF Upload, Appending
<1>4. CASE UNCHANGED vars
  BY <1>4 DEF vars, history, record, Inv, Types, Ready, AccountReady, UploadReady, DistinctPuts,
              Boxes, Shown, SentSettled, SentOnce, Counted
<1> QED
  BY <1>1, <1>2, <1>3, <1>4 DEF Next

(* The invariant that the theorems below are instances of.                 *)
THEOREM BoardInvariant == Spec => []Inv
<1> QED
  BY InitInv, NextInv, PTL DEF Spec

(* Every state is of its type; with it, no mailbox counts more than the    *)
(* messages there are, although counts that were read are written back     *)
(* after others have changed them.                                         *)
THEOREM BoardTypes == Spec => []TypeOK
<1> QED
  BY BoardInvariant, TypesCorrect, PTL

(* What is in a mailbox, or was taken out of it, is meant for its owner.   *)
LEMMA SeenIsMeant ==
  ASSUME Inv, NEW u \in Students, NEW m \in Messages, In(m, Seen(u) \o Unread(u))
  PROVE  Meant(posted, answers, u, m)
<1> DEFINE g == got[u]
           x == th[u].text
           y == Unread(u)
<1>1. /\ g \in Seq(Messages \cup {Nul}) /\ AllMeant(posted, answers, u, g)
      /\ x \in Seq(Messages \cup {Nul}) /\ AllMeant(posted, answers, u, x)
      /\ y \in Seq(Messages \cup {Nul}) /\ AllMeant(posted, answers, u, y)
      /\ m # Nul
  BY ThreadFacts, UnreadFacts, NamesAssumption DEF Types, Locals, Shown
<1>2. PICK i \in 1..Len(g \o x \o y) : (g \o x \o y)[i] = m
  BY DEF In, Seen
<1> HIDE DEF g, x, y
<1>3. \/ \E j \in 1..Len(g) : g[j] = m
      \/ \E j \in 1..Len(x) : x[j] = m
      \/ \E j \in 1..Len(y) : y[j] = m
  <2>1. CASE i <= Len(g)
    BY <1>1, <1>2, <2>1
  <2>2. CASE i > Len(g) /\ i <= Len(g) + Len(x)
    <3>1. i - Len(g) \in 1..Len(x) /\ (g \o x \o y)[i] = x[i - Len(g)]
      BY <1>1, <1>2, <2>2
    <3> QED
      BY <1>2, <3>1
  <2>3. CASE i > Len(g) + Len(x)
    <3>1. /\ i - Len(g) - Len(x) \in 1..Len(y)
          /\ (g \o x \o y)[i] = y[i - Len(g) - Len(x)]
      BY <1>1, <1>2, <2>3
    <3> QED
      BY <1>2, <3>1
  <2> QED
    BY <1>1, <1>2, <2>1, <2>2, <2>3
<1> QED
  BY <1>1, <1>3 DEF AllMeant

(* However the threads interleave over the unsynchronized StringBuilders,  *)
(* nobody is shown the request of his own, or a notice that is not for him *)
(* (Server lines 271-276 and 375-380).                                     *)
THEOREM BoardOnlyOnesOwn == Spec => []OnlyOnesOwn
<1>1. Inv => OnlyOnesOwn
  BY SeenIsMeant, BoardAssumption DEF OnlyOnesOwn, Meant, Inv, Types
<1> QED
  BY <1>1, BoardInvariant, PTL

(* A request is known to the server before anybody can have read of it,    *)
(* and only two puts that overlap make the map forget it (Server 268).     *)
THEOREM BoardKnownWhenSeen == Spec => []KnownWhenSeen
<1>1. Inv => KnownWhenSeen
  BY SeenIsMeant DEF KnownWhenSeen, Meant, Messages, Inv, Types
<1> QED
  BY <1>1, BoardInvariant, PTL

-----------------------------------------------------------------------------
(* Mailboxes that no two threads were ever at.                             *)

(* Only a thread that displays a mailbox has taken text out of it.         *)
TextTaken == \A t \in Threads : th[t].pc \notin Displays => th[t].text = <<>>

(* Mailbox u while nobody has disturbed anybody there: one thread at most  *)
(* is at it; what was shown, is taken and is unread are what was appended, *)
(* in order; and a message that was copied is where the count will be.     *)
Whole(u) ==
  IF th[u].pc \in Displays
  THEN /\ Seen(u) = sent[u]
       /\ th[u].pc # "clear" => count[u] = 0
       /\ th[u].pc = "reply" => th[u].read = 0
  ELSE got[u] \o Unread(u) = sent[u]

Alone(u) ==
  /\ \A s, t \in Threads : th[s].to = u /\ th[t].to = u => s = t
  /\ \A t \in Threads : th[t].to = u /\ th[t].pc \in {"read", "add"} =>
       /\ chars[u][count[u] + 1] = th[t].msg
       /\ th[t].pc = "add" => th[t].read = count[u]
  /\ Whole(u)

Order == TextTaken /\ \A u \in Students : ~overlap[u] => Alone(u)

(* What one more slot of the array adds to what is unread.                 *)
LEMMA OneMoreSlot ==
  ASSUME NEW S, NEW N \in Nat, NEW g \in Seq(S), NEW c \in [1..N -> S], NEW n \in Nat, n < N
  PROVE  g \o SubSeq(c, 1, n + 1) = Append(g \o SubSeq(c, 1, n), c[n + 1])
<1> DEFINE x == SubSeq(c, 1, n)
           y == SubSeq(c, 1, n + 1)
<1>1. x = [i \in 1..n |-> c[i]] /\ y = [i \in 1..(n + 1) |-> c[i]]
  OBVIOUS
<1>2. /\ \A i \in 1..(n + 1) : c[i] \in S
      /\ c[n + 1] \in S
  OBVIOUS
<1> HIDE DEF x, y
<1>3. /\ x \in Seq(S) /\ Len(x) = n /\ y \in Seq(S) /\ Len(y) = n + 1
  BY <1>1, <1>2
<1>4. /\ g \o x \in Seq(S) /\ g \o y \in Seq(S)
      /\ Len(g \o x) = Len(g) + n /\ Len(g \o y) = Len(g) + n + 1
      /\ \A i \in 1..(Len(g) + n) : (g \o x)[i] = IF i <= Len(g) THEN g[i] ELSE x[i - Len(g)]
      /\ \A i \in 1..(Len(g) + n + 1) : (g \o y)[i] = IF i <= Len(g) THEN g[i] ELSE y[i - Len(g)]
  <2>1. /\ g \o x \in Seq(S) /\ Len(g \o x) = Len(g) + Len(x)
        /\ \A i \in 1..(Len(g) + Len(x)) :
             (g \o x)[i] = IF i <= Len(g) THEN g[i] ELSE x[i - Len(g)]
    BY <1>3, ConcatProperties
  <2>2. /\ g \o y \in Seq(S) /\ Len(g \o y) = Len(g) + Len(y)
        /\ \A i \in 1..(Len(g) + Len(y)) :
             (g \o y)[i] = IF i <= Len(g) THEN g[i] ELSE y[i - Len(g)]
    BY <1>3, ConcatProperties
  <2>3. Len(g) \in Nat
    OBVIOUS
  <2> QED
    BY <1>3, <2>1, <2>2, <2>3
<1> DEFINE z == Append(g \o x, c[n + 1])
           w == g \o x
<1>5. /\ z \in Seq(S) /\ Len(z) = Len(g) + n + 1 /\ z[Len(g) + n + 1] = c[n + 1]
      /\ \A i \in 1..(Len(g) + n) : z[i] = w[i]
  <2> HIDE DEF w
  <2>1. w \in Seq(S) /\ Len(w) = Len(g) + n
    BY <1>4 DEF w
  <2> QED
    BY <1>2, <2>1 DEF w
<1> HIDE DEF z
<1>6. ASSUME NEW i \in 1..(Len(g) + n + 1) PROVE (g \o y)[i] = z[i]
  <2>0. Len(g) \in Nat
    OBVIOUS
  <2>1. CASE i <= Len(g)
    <3>1. (g \o y)[i] = g[i] /\ z[i] = w[i] /\ w[i] = g[i]
      BY <1>4, <1>5, <2>0, <2>1
    <3> QED
      BY <3>1
  <2>2. CASE i > Len(g) /\ i <= Len(g) + n
    <3>1. i - Len(g) \in 1..n
      BY <2>0, <2>2
    <3>2. x[i - Len(g)] = c[i - Len(g)] /\ y[i - Len(g)] = c[i - Len(g)]
      BY <1>1, <3>1
    <3>3. (g \o y)[i] = y[i - Len(g)] /\ z[i] = w[i] /\ w[i] = x[i - Len(g)]
      BY <1>4, <1>5, <2>0, <2>2
    <3> QED
      BY <3>2, <3>3
  <2>3. CASE i = Len(g) + n + 1
    <3>1. i - Len(g) = n + 1 /\ y[n + 1] = c[n + 1]
      BY <1>1, <2>0, <2>3
    <3>2. (g \o y)[i] = y[i - Len(g)] /\ z[i] = c[n + 1]
      BY <1>4, <1>5, <2>0, <2>3
    <3> QED
      BY <3>1, <3>2
  <2>4. \/ i <= Len(g)
        \/ i > Len(g) /\ i <= Len(g) + n
        \/ i = Len(g) + n + 1
    BY <2>0
  <2> QED
    BY <2>1, <2>2, <2>3, <2>4
<1>7. g \o y = z
  BY <1>4, <1>5, <1>6, SeqEqual
<1> QED
  BY <1>7 DEF x, y, z

(* What a step of thread t leaves as it was at mailbox u.                  *)
LEMMA AloneKept ==
  ASSUME Inv, NEW u \in Students, Alone(u), NEW t \in Threads, OnlyMoves(t),
         chars'[u] = chars[u], count'[u] = count[u], sent'[u] = sent[u], got'[u] = got[u],
         t = u => th[t].pc \notin Displays /\ th'[t].pc \notin Displays,
         th'[t].to = u => th[t].to = u \/ \A s \in Threads \ {t} : th[s].to # u,
         th'[t].to = u /\ th'[t].pc \in {"read", "add"} =>
           /\ chars[u][count[u] + 1] = th'[t].msg
           /\ th'[t].pc = "add" => th'[t].read = count[u]
  PROVE  Alone(u)'
<1>1. u \in Threads
  BY ThreadFacts
<1>2. ASSUME NEW r \in Threads, NEW s \in Threads, th'[r].to = u, th'[s].to = u
      PROVE  r = s
  BY <1>2 DEF Alone, OnlyMoves
<1>3. ASSUME NEW s \in Threads, th'[s].to = u, th'[s].pc \in {"read", "add"}
      PROVE  /\ chars'[u][count'[u] + 1] = th'[s].msg
             /\ th'[s].pc = "add" => th'[s].read = count'[u]
  BY <1>3 DEF Alone, OnlyMoves
<1>4. Whole(u)'
  <2>1. CASE t = u
    BY <2>1 DEF Whole, Alone, Unread
  <2>2. CASE t # u
    <3>1. th'[u] = th[u]
      BY <1>1, <2>2 DEF OnlyMoves
    <3> QED
      BY <3>1 DEF Whole, Alone, Unread, Seen
  <2> QED
    BY <2>1, <2>2
<1> QED
  BY <1>2, <1>3, <1>4 DEF Alone

(* A step that leaves the texts alone keeps them so.                      *)
LEMMA TextKeptTaken ==
  ASSUME Order, NEW t \in Threads, OnlyMoves(t),
         th'[t].pc \in Displays \/ th'[t].text = <<>>
  PROVE  TextTaken'
BY DEF Order, TextTaken, OnlyMoves

(* A step that leaves mailboxes and what was shown alone.                  *)
LEMMA LocalOrder ==
  ASSUME Inv, Order, NEW t \in Threads, OnlyMoves(t),
         UNCHANGED <<chars, count, sent, got>>,
         th[t].pc \notin Displays, th'[t].pc \notin Displays, th'[t].text = <<>>,
         \A u \in Students : ~overlap'[u] =>
           /\ ~overlap[u]
           /\ th'[t].to = u => th[t].to = u \/ \A s \in Threads \ {t} : th[s].to # u,
         \/ th'[t].pc \notin {"read", "add"}
         \/ /\ th[t].pc = "read" /\ th'[t].pc = "add" /\ th'[t].read = count[th[t].to]
            /\ th'[t].to = th[t].to /\ th'[t].msg = th[t].msg
  PROVE  Order'
<1>1. ASSUME NEW u \in Students, ~overlap'[u] PROVE Alone(u)'
  <2>1. Alone(u)
    BY <1>1 DEF Order
  <2>2. th'[t].to = u /\ th'[t].pc \in {"read", "add"} =>
           /\ chars[u][count[u] + 1] = th'[t].msg
           /\ th'[t].pc = "add" => th'[t].read = count[u]
    BY <2>1 DEF Alone
  <2> QED
    BY <1>1, <2>1, <2>2, AloneKept
<1>2. TextTaken'
  BY TextKeptTaken
<1> QED
  BY <1>1, <1>2 DEF Order

(* The steps that neither append nor display leave every mailbox as it is.*)
LEMMA LocalSteps ==
  ASSUME Inv, Order, NEW t \in Threads,
         \/ \E r \in Requests : t \in Accounts /\ Post(t, r)
         \/ \E r \in Requests : t \in Uploads /\ Answer(t, r)
         \/ t \in Accounts /\ (PutRequest(t) \/ WalkEnds(t) \/ DisplayNothing(t) \/ Walk(t))
         \/ CopyThrows(t) \/ ReadCount(t)
         \/ t \in Uploads /\ Notify(t)
  PROVE  Order'
<1>1. /\ Types /\ th[t] \in Locals
      /\ th[t].pc \notin Displays => th[t].text = <<>>
      /\ t \in Accounts => t \notin Uploads /\ AccountReady(t)
      /\ t \in Uploads => t \notin Accounts /\ UploadReady(t)
      /\ overlap \in [Students -> BOOLEAN]
  BY ThreadFacts DEF Order, TextTaken, Types
<1>2. CASE \E r \in Requests : t \in Accounts /\ Post(t, r)
  <2>0. PICK r \in Requests : Post(t, r)
    BY <1>2
  <2>1. /\ OnlyMoves(t) /\ th[t].pc = "idle" /\ th'[t].pc = "put" /\ th'[t].text = th[t].text
        /\ th'[t].to = th[t].to /\ UNCHANGED <<chars, count, sent, got, overlap>>
    BY <1>1, <2>0 DEF Post, Types, Locals, OnlyMoves, history, record
  <2> QED
    BY <1>1, <2>1, LocalOrder DEF Displays
<1>3. CASE \E r \in Requests : t \in Uploads /\ Answer(t, r)
  <2>1. /\ OnlyMoves(t) /\ th[t].pc = "idle" /\ th'[t].pc = "notify" /\ th'[t].text = th[t].text
        /\ th'[t].to = th[t].to /\ UNCHANGED <<chars, count, sent, got, overlap>>
    BY <1>1, <1>3 DEF Answer, Types, Locals, OnlyMoves, history, record
  <2> QED
    BY <1>1, <2>1, LocalOrder DEF Displays
<1>4. CASE t \in Accounts /\ PutRequest(t)
  <2>1. /\ OnlyMoves(t) /\ th[t].pc = "put" /\ th'[t].pc = "walk" /\ th'[t].text = th[t].text
        /\ th'[t].to = th[t].to /\ UNCHANGED <<chars, count, sent, got, overlap>>
    BY <1>1, <1>4 DEF PutRequest, Types, Locals, OnlyMoves, history, record
  <2> QED
    BY <1>1, <2>1, LocalOrder DEF Displays
<1>5. CASE (t \in Accounts /\ (WalkEnds(t) \/ DisplayNothing(t))) \/ CopyThrows(t)
  <2>1. PICK p \in {"idle", "dead"} :
          /\ th' = [th EXCEPT ![t] = Thread(p)]
          /\ th[t].pc \in {"walk", "idle", "copy"}
          /\ UNCHANGED <<chars, count, sent, got, overlap>>
    BY <1>5 DEF WalkEnds, DisplayNothing, CopyThrows, history, record
  <2>2. OnlyMoves(t) /\ th'[t].pc = p /\ th'[t].text = <<>> /\ th'[t].to = Nobody
    BY <1>1, <2>1, IdleLocals DEF Types, OnlyMoves
  <2>3. \A u \in Students : th'[t].to # u
    BY <2>2, NamesAssumption
  <2>4. th[t].pc \notin Displays /\ th'[t].pc \notin Displays /\ th'[t].pc \notin {"read", "add"}
    BY <2>1, <2>2 DEF Displays
  <2> QED
    BY <1>1, <2>1, <2>2, <2>3, <2>4, LocalOrder
<1>6. CASE t \in Accounts /\ Walk(t)
  <2>1. PICK u \in th[t].todo :
          /\ th' = [th EXCEPT ![t].pc = "copy", ![t].todo = @ \ {u},
                              ![t].to = u, ![t].size = count[u]]
          /\ Enter(t, u)
    BY <1>6 DEF Walk
  <2>2. /\ OnlyMoves(t) /\ th[t].pc = "walk" /\ th'[t].pc = "copy" /\ th'[t].text = th[t].text
        /\ th'[t].to = u /\ UNCHANGED <<chars, count, sent, got>> /\ u \in Students
    BY <1>1, <1>6, <2>1 DEF Walk, Types, Locals, OnlyMoves, history, record
  <2>3. \A v \in Students : ~overlap'[v] =>
           /\ ~overlap[v]
           /\ v = u => \A s \in Threads \ {t} : th[s].to # u
    BY <1>1, <2>1, <2>2 DEF Enter
  <2> QED
    BY <1>1, <2>2, <2>3, LocalOrder DEF Displays
<1>7. CASE ReadCount(t)
  <2>1. /\ OnlyMoves(t) /\ th[t].pc = "read" /\ th'[t].pc = "add" /\ th'[t].text = th[t].text
        /\ th'[t].to = th[t].to /\ th'[t].msg = th[t].msg /\ th'[t].read = count[th[t].to]
        /\ UNCHANGED <<chars, count, sent, got, overlap>>
    BY <1>1, <1>7 DEF ReadCount, Types, Locals, OnlyMoves, history, record
  <2> QED
    BY <1>1, <2>1, LocalOrder DEF Displays
<1>8. CASE t \in Uploads /\ Notify(t)
  <2> DEFINE u == posted[answers[t]]
  <2>1. th[t].pc = "notify" /\ UNCHANGED <<chars, count, sent, got>>
    BY <1>8 DEF Notify, history, record
  <2>2. CASE th' = [th EXCEPT ![t] = Thread("dead")] /\ UNCHANGED overlap
    <3>1. th' = [th EXCEPT ![t] = Thread("dead")] /\ UNCHANGED overlap
      BY <2>2
    <3>2. OnlyMoves(t) /\ th'[t].pc = "dead" /\ th'[t].text = <<>> /\ th'[t].to = Nobody
      BY <1>1, <3>1, IdleLocals DEF Types, OnlyMoves
    <3>3. \A v \in Students : th'[t].to # v
      BY <3>2, NamesAssumption
    <3> QED
      BY <1>1, <2>1, <3>1, <3>2, <3>3, LocalOrder DEF Displays
  <2>3. CASE ~(th' = [th EXCEPT ![t] = Thread("dead")] /\ UNCHANGED overlap)
    <3>0. PICK w \in Posters(answers[t]) :
            /\ th' = [th EXCEPT ![t].pc = "copy", ![t].to = w, ![t].size = count[w]]
            /\ Enter(t, w)
      BY <1>8, <2>3 DEF Notify
    <3>1. /\ u \in Students
          /\ th' = [th EXCEPT ![t].pc = "copy", ![t].to = u, ![t].size = count[u]]
          /\ Enter(t, u)
      BY <3>0 DEF Posters, Inv, Types
    <3>2. /\ OnlyMoves(t) /\ th'[t].pc = "copy" /\ th'[t].text = th[t].text /\ th'[t].to = u
      BY <1>1, <3>1 DEF Types, Locals, OnlyMoves
    <3>3. \A v \in Students : ~overlap'[v] =>
             /\ ~overlap[v]
             /\ v = u => \A s \in Threads \ {t} : th[s].to # u
      BY <1>1, <2>3, <3>1 DEF Enter
    <3> QED
      BY <1>1, <2>1, <3>2, <3>3, LocalOrder DEF Displays
  <2> QED
    BY <2>2, <2>3
<1> QED
  BY <1>2, <1>3, <1>4, <1>5, <1>6, <1>7, <1>8

(* While a message is being appended to a mailbox, it is one more than     *)
(* those that were.                                                        *)
LEMMA NotFull ==
  ASSUME Inv, NEW t \in Threads, th[t].pc \in Appends
  PROVE  Len(sent[th[t].to]) < Cardinality(Messages)
<1> DEFINE u == th[t].to
           m == th[t].msg
           n == Len(sent[u])
           rest == Messages \ {m}
<1>1. IsFiniteSet(Messages) /\ Cardinality(Messages) \in Nat
  <2>1. IsFiniteSet(Messages)
    BY FS_Union, BoardAssumption DEF Messages
  <2> QED
    BY <2>1, FS_CardinalityType
<1>2. u \in Students /\ m \in Messages /\ n \in Nat /\ sent[u] \in [1..n -> Messages]
  BY AppenderFacts, ThreadFacts DEF Types
<1>3. IsFiniteSet(rest) /\ Cardinality(rest) = Cardinality(Messages) - 1
  BY <1>1, <1>2, FS_RemoveElement
<1>4. \A i \in 1..n : sent[u][i] # m
  BY <1>2 DEF Inv, SentSettled, Settled
<1>5. SUFFICES ASSUME Cardinality(Messages) <= n PROVE FALSE
  BY <1>1, <1>2
<1> DEFINE D == 1..n
           f == sent[u]
<1>6. f \in [D -> rest]
  BY <1>2, <1>4
<1>7. IsFiniteSet(D) /\ Cardinality(D) = n
  <2>1. n > 0
    <3>1. Cardinality(rest) \in Nat
      BY <1>3, FS_CardinalityType
    <3> QED
      BY <1>1, <1>2, <1>3, <1>5, <3>1
  <2> HIDE DEF n
  <2>2. 1 \in Int /\ n \in Int
    BY <1>2
  <2>3. IsFiniteSet(1..n) /\ Cardinality(1..n) = IF 1 > n THEN 0 ELSE n - 1 + 1
    BY <2>2, FS_Interval
  <2> QED
    BY <2>1, <2>2, <2>3
<1>8. Cardinality(rest) < Cardinality(D)
  BY <1>1, <1>2, <1>3, <1>5, <1>7
<1> HIDE DEF D, f, rest, n
<1>9. \E i, j \in D : i # j /\ f[i] = f[j]
  BY <1>3, <1>6, <1>7, <1>8, FS_PigeonHole
<1> QED
  BY <1>2, <1>9 DEF Inv, SentOnce, D, f, n

(* An append to a mailbox where nobody else is puts the message where the *)
(* count will be ...                                                      *)
LEMMA CopyOrder ==
  ASSUME Inv, Order, NEW t \in Threads, Copy(t)
  PROVE  Order'
<1>0. PICK u \in Students : u = th[t].to
  BY AppenderFacts DEF Copy, Appends
<1> DEFINE m == th[t].msg
           n == count[u] + 1
<1>1. /\ Types /\ th[t] \in Locals /\ th[t].pc = "copy" /\ u \in Threads
      /\ th[t].text = <<>> /\ t # u
  BY <1>0, ThreadFacts, AppenderFacts
     DEF Copy, Appends, Displays, Order, TextTaken, AccountReady, Threads
<1>2. /\ OnlyMoves(t) /\ th'[t].pc = "read" /\ th'[t].msg = m /\ th'[t].to = u
      /\ th'[t].text = th[t].text
  BY <1>0, <1>1 DEF Copy, Types, OnlyMoves, Locals
<1>3. /\ chars' = [chars EXCEPT ![u][n] = m]
      /\ UNCHANGED <<requests, posted, torn, answers, sent, got, drawn, count, reads, overlap>>
  BY <1>0 DEF Copy, history, record
<1>4. TextTaken'
  BY <1>1, <1>2, TextKeptTaken
<1>5. ASSUME NEW v \in Students, ~overlap'[v], v # u PROVE Alone(v)'
  <2>1. chars'[v] = chars[v] /\ Alone(v)
    BY <1>1, <1>3, <1>5 DEF Types, Order
  <2>2. th[t].pc \notin Displays /\ th'[t].pc \notin Displays
    BY <1>1, <1>2 DEF Displays
  <2> QED
    BY <1>2, <1>3, <1>5, <2>1, <2>2, AloneKept
<1>6. ASSUME ~overlap'[u] PROVE Alone(u)'
  <2>1. Alone(u)
    BY <1>1, <1>3, <1>6 DEF Order
  <2>2. \A s \in Threads : th'[s].to = u => s = t
    BY <1>0, <1>2, <2>1 DEF Alone, OnlyMoves
  <2>3. th[u] = th'[u] /\ th[u].pc \notin Displays
    BY <1>0, <1>1, <1>2, <2>1, ThreadFacts DEF Alone, OnlyMoves, AccountReady
  <2>4. Unread(u)' = Unread(u) /\ chars'[u][n] = m
    <3> DEFINE k == count[u]
               N == Cardinality(Messages)
               c == chars[u]
               d == chars'[u]
    <3>2. /\ k \in 0..N /\ N \in Nat /\ Len(sent[u]) \in Nat
          /\ c \in [1..N -> Messages \cup {Nul}]
      <4>1. N \in Nat
        BY BoardAssumption, FS_Union, FS_CardinalityType DEF Messages
      <4>2. k \in 0..N
        BY <1>1, Bounded
      <4> QED
        BY <1>1, <4>1, <4>2 DEF Types, Slots
    <3>3. k + 1 <= N
      (* There is a message that was not appended yet: this one.           *)
      <4>1. Len(sent[u]) < N
        <5> SUFFICES ASSUME Len(sent[u]) >= N PROVE FALSE
          BY <3>2
        <5>1. Len(sent[u]) = N
          BY <1>1, <3>2, Bounded
        <5> QED
          BY <1>0, <1>1, <5>1, NotFull DEF Appends
      <4> QED
        BY <1>1, <3>2, <4>1, ThreadFacts DEF Counted, Types
    <3>4. d = [c EXCEPT ![k + 1] = m]
      BY <1>1, <1>3 DEF Types
    <3> HIDE DEF c, d, k, m, N
    <3>5. d[k + 1] = m /\ \A i \in 1..k : d[i] = c[i]
      BY <3>2, <3>3, <3>4
    <3>6. DOMAIN d = 1..N /\ SubSeq(c, 1, k) = [i \in 1..k |-> c[i]]
          /\ SubSeq(d, 1, k) = [i \in 1..k |-> d[i]]
      BY <3>2, <3>4
    <3>7. SubSeq(d, 1, k) = SubSeq(c, 1, k)
      BY <3>5, <3>6
    <3> QED
      BY <1>3, <3>5, <3>7 DEF Unread, c, d, k
  <2>5. Whole(u)'
    BY <1>3, <2>1, <2>3, <2>4 DEF Whole, Alone
  <2> QED
    BY <1>2, <1>3, <2>2, <2>4, <2>5 DEF Alone
<1> QED
  BY <1>4, <1>5, <1>6 DEF Order

(* ... and counting it adds it at the end of what is unread.              *)
LEMMA AddCountOrder ==
  ASSUME Inv, Order, NEW t \in Threads, AddCount(t)
  PROVE  Order'
<1>0. PICK u \in Students : u = th[t].to
  BY AppenderFacts DEF AddCount, Appends
<1> DEFINE m == th[t].msg
           k == count[u]
<1>1. /\ Types /\ th[t] \in Locals /\ th[t].pc = "add" /\ u \in Threads
      /\ th[t].text = <<>> /\ t # u
  BY <1>0, ThreadFacts, AppenderFacts
     DEF AddCount, Appends, Displays, Order, TextTaken, AccountReady, Threads
<1>2. /\ OnlyMoves(t) /\ th'[t].pc \in {"done", "walk"} /\ th'[t].to = Nobody
      /\ th'[t].text = th[t].text
  BY <1>1 DEF AddCount, Types, OnlyMoves, Locals
<1>3. /\ count' = [count EXCEPT ![u] = th[t].read + 1]
      /\ sent' = [sent EXCEPT ![u] = Append(@, m)]
      /\ UNCHANGED <<requests, posted, torn, answers, chars, got, drawn, reads, overlap>>
  BY <1>0 DEF AddCount, record
<1>4. TextTaken'
  BY <1>1, <1>2, TextKeptTaken
<1>5. ASSUME NEW v \in Students, ~overlap'[v], v # u PROVE Alone(v)'
  <2>1. count'[v] = count[v] /\ sent'[v] = sent[v] /\ Alone(v)
    BY <1>1, <1>3, <1>5 DEF Types, Order
  <2>2. /\ th[t].pc \notin Displays /\ th'[t].pc \notin Displays
        /\ th'[t].pc \notin {"read", "add"} /\ th'[t].to # v
    BY <1>1, <1>2, NamesAssumption DEF Displays
  <2> QED
    BY <1>2, <1>3, <2>1, <2>2, AloneKept
<1>6. ASSUME ~overlap'[u] PROVE Alone(u)'
  <2>1. Alone(u)
    BY <1>1, <1>3, <1>6 DEF Order
  <2>2. chars[u][k + 1] = m /\ th[t].read = k
    BY <1>0, <1>1, <2>1 DEF Alone
  <2>3. \A s \in Threads : th'[s].to # u
    BY <1>0, <1>2, <2>1, NamesAssumption DEF Alone, OnlyMoves
  <2>4. th[u] = th'[u] /\ th[u].pc \notin Displays
    BY <1>0, <1>1, <1>2, <2>1, ThreadFacts DEF Alone, OnlyMoves, AccountReady
  <2>5. got[u] \o Unread(u) = sent[u]
    BY <2>1, <2>4 DEF Alone, Whole
  <2>6. count'[u] = k + 1 /\ sent'[u] = Append(sent[u], m)
    BY <1>1, <1>3, <2>2 DEF Types
  <2>7. got[u] \o SubSeq(chars[u], 1, k + 1) = Append(got[u] \o SubSeq(chars[u], 1, k), chars[u][k + 1])
    <3> DEFINE N == Cardinality(Messages)
               S == Messages \cup {Nul}
               g == got[u]
               c == chars[u]
    <3>1. N \in Nat
      BY BoardAssumption, FS_Union, FS_CardinalityType DEF Messages
    <3>2. c \in [1..N -> S] /\ g \in Seq(S) /\ k \in Nat
      BY <1>1 DEF Types, Slots
    <3>3. k < N
      <4>1. Len(sent[u]) \in Nat /\ Len(sent[u]) < N /\ k <= Len(sent[u])
        BY <1>0, <1>1, NotFull, ThreadFacts DEF Appends, Counted, Types
      <4> QED
        BY <3>1, <3>2, <4>1
    <3> HIDE DEF N, S, g, c, k
    <3>4. g \o SubSeq(c, 1, k + 1) = Append(g \o SubSeq(c, 1, k), c[k + 1])
      BY <3>1, <3>2, <3>3, OneMoreSlot
    <3> QED
      BY <3>4 DEF g, c
  <2>8. Whole(u)'
    BY <1>3, <2>2, <2>4, <2>5, <2>6, <2>7 DEF Whole, Unread
  <2> QED
    BY <2>3, <2>8 DEF Alone
<1> QED
  BY <1>4, <1>5, <1>6 DEF Order

(* A display that nobody disturbs moves what is unread to what is shown.  *)
LEMMA DisplayOrder ==
  ASSUME Inv, Order, NEW u \in Accounts, Display(u)
  PROVE  Order'
<1>1. /\ u \in Threads /\ th[u] \in Locals /\ u \in Students
      /\ Types /\ th[u].pc = "idle"
  BY ThreadFacts DEF Display
<1>2. /\ OnlyMoves(u) /\ th'[u].pc = "clear" /\ th'[u].to = u /\ th'[u].text = Unread(u)
      /\ UNCHANGED <<requests, posted, torn, chars, count, drawn, answers, sent, got>>
  BY <1>1 DEF Display, Types, Locals, OnlyMoves, record
<1>3. TextTaken'
  BY <1>1, <1>2, TextKeptTaken DEF Displays
<1>4. \A v \in Students : ~overlap'[v] => ~overlap[v]
  BY <1>1 DEF Display, Enter, Types
<1>5. ASSUME NEW v \in Students, ~overlap'[v], v # u PROVE Alone(v)'
  <2>1. Alone(v)
    BY <1>4, <1>5 DEF Order
  <2> QED
    BY <1>1, <1>2, <1>5, <2>1, AloneKept
<1>6. ASSUME ~overlap'[u] PROVE Alone(u)'
  <2>1. Alone(u)
    BY <1>1, <1>4, <1>6 DEF Order
  <2>2. \A s \in Threads \ {u} : th'[s].to # u
    BY <1>1, <1>2, <1>6 DEF Display, Enter, Types, OnlyMoves
  <2>3. got[u] \o Unread(u) = sent[u]
    BY <1>1, <2>1 DEF Alone, Whole, Displays
  <2>4. Whole(u)'
    BY <1>2, <2>3 DEF Whole, Seen, Displays
  <2> QED
    BY <1>2, <2>2, <2>4 DEF Alone
<1> QED
  BY <1>3, <1>5, <1>6 DEF Order

(* The three steps by which a thread empties the mailbox it has read.      *)
LEMMA EmptyingOrder ==
  ASSUME Inv, Order, NEW u \in Accounts, Clear(u) \/ ReadAgain(u) \/ WriteAgain(u)
  PROVE  Order'
<1>1. /\ u \in Threads /\ th[u] \in Locals /\ u \in Students /\ th[u].to = u
      /\ Types /\ th[u].pc \in Displays
  BY ThreadFacts DEF Clear, ReadAgain, WriteAgain, AccountReady, Displays
<1>2. UNCHANGED <<chars, sent, overlap>>
  BY DEF Clear, ReadAgain, WriteAgain, history, record
<1>3. OnlyMoves(u) /\ th'[u].to \in {u, Nobody} /\ th'[u].pc \notin {"read", "add"}
  <2>1. CASE Clear(u)
    BY <1>1, <2>1 DEF Clear, Types, Locals, OnlyMoves
  <2>2. CASE ReadAgain(u)
    BY <1>1, <2>2 DEF ReadAgain, Types, Locals, OnlyMoves
  <2>3. CASE WriteAgain(u)
    BY <1>1, <2>3, IdleLocals DEF WriteAgain, Types, OnlyMoves
  <2> QED
    BY <2>1, <2>2, <2>3
<1>4. \A v \in Students \ {u} : count'[v] = count[v] /\ got'[v] = got[v]
  BY <1>1 DEF Clear, ReadAgain, WriteAgain, Types, history, record
<1>5. ASSUME NEW v \in Students, ~overlap'[v], v # u PROVE Alone(v)'
  <2>1. Alone(v) /\ th'[u].to # v
    BY <1>2, <1>3, <1>5, NamesAssumption DEF Order
  <2> QED
    BY <1>1, <1>2, <1>3, <1>4, <1>5, <2>1, AloneKept
<1>6. ASSUME ~overlap'[u], Whole(u)' PROVE Alone(u)'
  <2>1. Alone(u)
    BY <1>1, <1>2, <1>6 DEF Order
  <2>2. \A s \in Threads \ {u} : th'[s].to # u
    BY <1>1, <1>3, <2>1 DEF Alone, OnlyMoves
  <2> QED
    BY <1>3, <1>6, <2>2 DEF Alone
<1>7. ASSUME ~overlap'[u] PROVE Whole(u)
  BY <1>1, <1>2, <1>7 DEF Order, Alone
<1>8. CASE Clear(u)
  <2>1. /\ th'[u].pc = "again" /\ th'[u].text = th[u].text /\ count'[u] = 0
        /\ UNCHANGED got
    BY <1>1, <1>8 DEF Clear, Types, Locals, history, record
  <2>2. ASSUME ~overlap'[u] PROVE Whole(u)'
    BY <1>1, <1>2, <1>7, <2>1, <2>2 DEF Whole, Seen, Displays
  <2>3. TextTaken'
    BY <1>1, <1>3, <2>1, TextKeptTaken DEF Displays
  <2> QED
    BY <1>5, <1>6, <2>2, <2>3 DEF Order
<1>9. CASE ReadAgain(u)
  <2>1. /\ th[u].pc = "again" /\ th'[u].pc = "reply" /\ th'[u].text = th[u].text
        /\ th'[u].read = count[u] /\ UNCHANGED <<got, count>>
    BY <1>1, <1>9 DEF ReadAgain, Types, Locals, history, record
  <2>2. ASSUME ~overlap'[u] PROVE Whole(u)'
    BY <1>1, <1>2, <1>7, <2>1, <2>2 DEF Whole, Seen, Displays
  <2>3. TextTaken'
    BY <1>1, <1>3, <2>1, TextKeptTaken DEF Displays
  <2> QED
    BY <1>5, <1>6, <2>2, <2>3 DEF Order
<1>10. CASE WriteAgain(u)
  <2>1. /\ th[u].pc = "reply" /\ th'[u].pc = "idle" /\ th'[u].text = <<>>
        /\ count'[u] = th[u].read /\ got'[u] = got[u] \o th[u].text
    BY <1>1, <1>10, IdleLocals DEF WriteAgain, Types
  <2>2. ASSUME ~overlap'[u] PROVE Whole(u)'
    <3>1. Seen(u) = sent[u] /\ th[u].read = 0
      BY <1>1, <1>7, <2>1, <2>2 DEF Whole, Displays
    <3>2. got'[u] = sent'[u] /\ count'[u] = 0
      BY <1>2, <2>1, <3>1 DEF Seen
    <3>3. Unread(u)' = <<>>
      BY <3>2, SubSeqEmpty DEF Unread
    <3>4. got'[u] \o <<>> = got'[u]
      BY <1>1, <1>2, <3>2, ConcatEmptySeq DEF Types
    <3> QED
      BY <2>1, <3>2, <3>3, <3>4 DEF Whole, Displays
  <2>3. TextTaken'
    BY <1>1, <1>3, <2>1, TextKeptTaken
  <2> QED
    BY <1>5, <1>6, <2>2, <2>3 DEF Order
<1> QED
  BY <1>8, <1>9, <1>10

(* In the beginning everything is empty.                                  *)
LEMMA OrderInit == Init => Order
<1> SUFFICES ASSUME Init PROVE Order
  OBVIOUS
<1>1. \A t \in Threads : th[t] = Thread("idle")
  BY DEF Init
<1>2. Inv
  BY InitInv
<1>3. ASSUME NEW u \in Students PROVE Whole(u)
  <2>1. th[u].pc = "idle" /\ got[u] = <<>> /\ sent[u] = <<>> /\ count[u] = 0
    BY <1>1, <1>2, ThreadFacts, IdleLocals DEF Init
  <2>2. Unread(u) = <<>>
    BY <2>1, SubSeqEmpty DEF Unread
  <2> QED
    BY <2>1, <2>2 DEF Whole, Displays
<1> QED
  BY <1>1, <1>3, IdleLocals, NamesAssumption DEF Order, TextTaken, Alone

(* Every step keeps the order of mailboxes that no two threads were ever  *)
(* at.                                                                    *)
LEMMA OrderNext == Inv /\ Order /\ [Next]_vars => Order'
<1> SUFFICES ASSUME Inv, Order, [Next]_vars PROVE Order'
  OBVIOUS
<1>1. ASSUME NEW a \in Accounts, Account(a) PROVE Order'
  BY <1>1, ThreadFacts, LocalSteps, CopyOrder, AddCountOrder, EmptyingOrder
     DEF Account, Appending
<1>2. ASSUME NEW a \in Accounts,
             Display(a) \/ DisplayNothing(a) \/ \E r \in Requests : Post(a, r)
      PROVE  Order'
  BY <1>2, ThreadFacts, LocalSteps, DisplayOrder
<1>3. ASSUME NEW k \in Uploads, Upload(k) \/ \E r \in Requests : Answer(k, r)
      PROVE  Order'
  BY <1>3, ThreadFacts, LocalSteps, CopyOrder, AddCountOrder DEF Upload, Appending
<1>4. CASE UNCHANGED vars
  BY <1>4 DEF vars, history, record, Order, TextTaken, Alone, Whole, Unread, Seen
<1> QED
  BY <1>1, <1>2, <1>3, <1>4 DEF Next

(* As long as no two threads were at a mailbox at the same time, what its  *)
(* owner was shown, is about to see and has not read is what was appended, *)
(* each message once and in order: the three steps that empty a mailbox    *)
(* (Server lines 282-283) and the two of append lose nothing by themselves.*)
THEOREM BoardExactlyOnce == Spec => []ExactlyOnceAlone
<1>1. Inv /\ Order => ExactlyOnceAlone
  <2> SUFFICES ASSUME Inv, Order, NEW u \in Students, ~overlap[u]
               PROVE  IF th[u].pc = "clear" THEN Seen(u) = sent[u]
                      ELSE Seen(u) \o Unread(u) = sent[u]
    BY DEF ExactlyOnceAlone
  <2>1. Whole(u) /\ u \in Threads
    BY ThreadFacts DEF Order, Alone
  <2>2. CASE th[u].pc = "clear"
    BY <2>1, <2>2 DEF Whole, Displays
  <2>3. CASE th[u].pc \in {"again", "reply"}
    <3>1. Seen(u) = sent[u] /\ count[u] = 0
      BY <2>1, <2>3 DEF Whole, Displays
    <3>2. Unread(u) = <<>>
      BY <3>1, SubSeqEmpty DEF Unread
    <3>3. sent[u] \o <<>> = sent[u]
      BY ThreadFacts, ConcatEmptySeq DEF Types
    <3> QED
      BY <2>3, <3>1, <3>2, <3>3
  <2>4. CASE th[u].pc \notin Displays
    <3>1. got[u] \o Unread(u) = sent[u] /\ th[u].text = <<>>
      BY <2>1, <2>4 DEF Whole, Order, TextTaken
    <3>2. got[u] \o <<>> = got[u]
      BY ThreadFacts, ConcatEmptySeq DEF Types
    <3> QED
      BY <2>4, <3>1, <3>2 DEF Seen, Displays
  <2> QED
    BY <2>2, <2>3, <2>4 DEF Displays
<1>2. Init => Inv /\ Order
  BY InitInv, OrderInit
<1>3. (Inv /\ Order) /\ [Next]_vars => (Inv /\ Order)'
  BY NextInv, OrderNext
<1> QED
  BY <1>1, <1>2, <1>3, PTL DEF Spec
=============================================================================
