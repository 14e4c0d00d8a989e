-------------------------- MODULE Listener_proofs ---------------------------
(***************************************************************************)
(* Proofs about Listener.  Type correctness, the bound on acceptances and  *)
(* that no event is lost hold for any number of listeners; that an event   *)
(* has one outcome is proved for one listener, the case the code is        *)
(* written for.  All of it holds for any producers, those that write in    *)
(* the inbox itself or take a name in use included.                        *)
(***************************************************************************)
EXTENDS Listener, TLAPS

Busy == {"check", "judge", "record", "unlink"}

(* What producers do with one file name, and what else happens around the  *)
(* listeners.                                                              *)
Produce(n) ==
  \/ Finish(n)
  \/ \E e \in Event \ (InPlace \cup {Fragment}) : Submit(n, e)
  \/ \E e \in InPlace : Open(n, e)

Ambient == Recover \/ \E t \in 0 .. MaxTime : SetClock(t)

(* FileDone leaves a listener idle or before its next file, with nothing   *)
(* in hand, and the other listeners where they are.                        *)
LEMMA FileDoneLocal ==
  ASSUME TypeOK, NEW l \in Listener, FileDone(l),
         todo' \in [Listener -> SUBSET Name],
         \A m \in Listener : m # l => todo'[m] = todo[m]
  PROVE  /\ pc' \in [Listener -> {"idle", "next"} \cup Busy]
         /\ file' \in [Listener -> Name \cup {None}]
         /\ doc' \in [Listener -> Documents]
         /\ verdict' \in [Listener -> Table \cup {None}]
         /\ pc'[l] \in {"idle", "next"}
         /\ pc'[l] = "next" => todo'[l] # {}
         /\ \A m \in Listener : m # l =>
              /\ pc'[m] = pc[m] /\ file'[m] = file[m]
              /\ doc'[m] = doc[m] /\ verdict'[m] = verdict[m]
<1>1. /\ pc \in [Listener -> {"idle", "next"} \cup Busy]
      /\ file \in [Listener -> Name \cup {None}]
      /\ doc \in [Listener -> Documents]
      /\ verdict \in [Listener -> Table \cup {None}]
  BY DEF TypeOK, Busy
<1>2. pc' = [pc EXCEPT ![l] = IF todo'[l] = {} THEN "idle" ELSE "next"]
  BY DEF FileDone
<1>3. /\ file' = [file EXCEPT ![l] = None]
      /\ doc' = [doc EXCEPT ![l] = None]
      /\ verdict' = [verdict EXCEPT ![l] = None]
  BY DEF FileDone
<1>4. pc'[l] = IF todo'[l] = {} THEN "idle" ELSE "next"
  BY <1>1, <1>2
<1>5. pc' \in [Listener -> {"idle", "next"} \cup Busy]
  BY <1>1, <1>2
<1>6. None \in Documents
  BY DEF Documents
<1>. QED BY <1>1, <1>2, <1>3, <1>4, <1>5, <1>6

(* TypeOK in two parts: the shared state, and the listeners'.              *)
SharedType ==
  /\ now \in 0 .. MaxTime /\ faulty \in BOOLEAN
  /\ inbox \in [Name -> Documents] /\ writing \in [Name -> Documents]
  /\ submitted \subseteq Event
  /\ rows \in [Table -> [Event -> Nat]] /\ audit \in [Event -> Nat]

LocalType ==
  /\ pc \in [Listener -> {"idle", "next"} \cup Busy]
  /\ todo \in [Listener -> SUBSET Name]
  /\ file \in [Listener -> Name \cup {None}] /\ doc \in [Listener -> Documents]
  /\ verdict \in [Listener -> Table \cup {None}]

HandOK(p, td, f, d, v) ==
  /\ p = "next" => td # {}
  /\ p \in Busy => f \in Name /\ d \in Event
  /\ p = "record" => v \in Table

HandsOK == \A m \in Listener : HandOK(pc[m], todo[m], file[m], doc[m], verdict[m])

(* TypeOK is the conjunction of these parts.                               *)
LEMMA TypeParts == TypeOK <=> SharedType /\ LocalType /\ HandsOK
BY DEF TypeOK, SharedType, LocalType, HandsOK, HandOK, Busy

(* The same after a step.                                                  *)
LEMMA TypePartsNext == SharedType' /\ LocalType' /\ HandsOK' => TypeOK'
BY DEF TypeOK, SharedType, LocalType, HandsOK, HandOK, Busy

(* The empty system has the right type.                                    *)
LEMMA InitType == Init => TypeOK
<1> SUFFICES ASSUME Init PROVE SharedType /\ LocalType /\ HandsOK
  BY TypeParts
<1>1. SharedType
  BY ListenerAssumption DEF Init, SharedType, Documents
<1>2. LocalType /\ HandsOK
  BY DEF Init, LocalType, HandsOK, HandOK, Documents, Busy
<1>. QED BY <1>1, <1>2

(* A step that ends a listener's work on a file keeps the listeners' types. *)
LEMMA FileDoneType ==
  ASSUME TypeOK, NEW l \in Listener, FileDone(l),
         todo' \in [Listener -> SUBSET Name],
         \A m \in Listener : m # l => todo'[m] = todo[m]
  PROVE  LocalType' /\ HandsOK'
<1>1. LocalType'
  BY FileDoneLocal DEF LocalType, Documents
<1>2. HandsOK'
  <2> SUFFICES ASSUME NEW m \in Listener
               PROVE  HandOK(pc'[m], todo'[m], file'[m], doc'[m], verdict'[m])
    BY DEF HandsOK
  <2>1. CASE m = l
    BY <2>1, FileDoneLocal DEF HandOK, Busy
  <2>2. CASE m # l
    <3>1. HandOK(pc[m], todo[m], file[m], doc[m], verdict[m])
      BY TypeParts DEF HandsOK
    <3>2. /\ pc'[m] = pc[m] /\ file'[m] = file[m] /\ doc'[m] = doc[m]
          /\ verdict'[m] = verdict[m] /\ todo'[m] = todo[m]
      BY <2>2, FileDoneLocal
    <3>. QED BY <3>1, <3>2
  <2>. QED BY <2>1, <2>2
<1>. QED BY <1>1, <1>2

(* A step that moves listener l to place p with file f, document d and     *)
(* verdict v in hand keeps the listeners' types when these fit.            *)
LEMMA MoveType ==
  ASSUME TypeOK, NEW l \in Listener, NEW p \in {"idle", "next"} \cup Busy,
         NEW f \in Name \cup {None}, NEW d \in Documents,
         NEW v \in Table \cup {None}, NEW S \in SUBSET Name,
         pc' = [pc EXCEPT ![l] = p], todo' = [todo EXCEPT ![l] = S],
         file' = [file EXCEPT ![l] = f], doc' = [doc EXCEPT ![l] = d],
         verdict' = [verdict EXCEPT ![l] = v], HandOK(p, S, f, d, v)
  PROVE  LocalType' /\ HandsOK'
<1>0. LocalType /\ HandsOK
  BY TypeParts
<1>1. LocalType'
  BY <1>0 DEF LocalType
<1>2. HandsOK'
  <2> SUFFICES ASSUME NEW m \in Listener
               PROVE  HandOK(pc'[m], todo'[m], file'[m], doc'[m], verdict'[m])
    BY DEF HandsOK
  <2>1. CASE m = l
    <3>1. /\ pc'[m] = p /\ file'[m] = f /\ doc'[m] = d
          /\ verdict'[m] = v /\ todo'[m] = S
      BY <1>0, <2>1 DEF LocalType
    <3>. QED BY <3>1
  <2>2. CASE m # l
    <3>1. HandOK(pc[m], todo[m], file[m], doc[m], verdict[m])
      BY <1>0 DEF HandsOK
    <3>2. /\ pc'[m] = pc[m] /\ file'[m] = file[m] /\ doc'[m] = doc[m]
          /\ verdict'[m] = verdict[m] /\ todo'[m] = todo[m]
      BY <1>0, <2>2 DEF LocalType
    <3>. QED BY <3>1, <3>2
  <2>. QED BY <2>1, <2>2
<1>. QED BY <1>1, <1>2

(* A step that only moves listener l to place p keeps the listeners' types *)
(* when what it has in hand fits the place.                                *)
LEMMA PlaceType ==
  ASSUME TypeOK, NEW l \in Listener, NEW p \in Busy,
         pc' = [pc EXCEPT ![l] = p], UNCHANGED <<todo, file, doc, verdict>>,
         HandOK(p, todo[l], file[l], doc[l], verdict[l])
  PROVE  LocalType' /\ HandsOK'
<1>0. LocalType /\ HandsOK
  BY TypeParts
<1>1. LocalType'
  BY <1>0 DEF LocalType
<1>2. ASSUME NEW m \in Listener
      PROVE  HandOK(pc'[m], todo[m], file[m], doc[m], verdict[m])
  <2>1. pc'[m] = IF m = l THEN p ELSE pc[m]
    BY <1>0 DEF LocalType
  <2>2. HandOK(pc[m], todo[m], file[m], doc[m], verdict[m])
    BY <1>0 DEF HandsOK
  <2>. QED BY <2>1, <2>2
<1>. QED BY <1>1, <1>2 DEF HandsOK

(* The table an event is routed to is one it may get.                      *)
LEMMA RouteType ==
  ASSUME TypeOK, NEW e \in Event
  PROVE  Route(e) \in MayGet(e) /\ MayGet(e) \subseteq Table
<1>1. Kind[e] \in Kinds
  BY ListenerAssumption
<1>2. MayGet(e) \subseteq Table
  BY <1>1 DEF MayGet, Table
<1>3. Route(e) \in MayGet(e)
  BY <1>1 DEF Route, MayGet, Kinds
<1>. QED BY <1>2, <1>3

(* Type correctness is preserved by what producers and the clock do.       *)
LEMMA ProducerType ==
  ASSUME TypeOK, UNCHANGED local,
         (\E n \in Name : Produce(n)) \/ Ambient \/ UNCHANGED vars
  PROVE  TypeOK'
<1>0. SharedType /\ LocalType /\ HandsOK
  BY TypeParts
<1>1. LocalType' /\ HandsOK'
  BY <1>0 DEF local, LocalType, HandsOK
<1>2. ASSUME NEW n \in Name, Finish(n)
      PROVE  SharedType'
  <2>1. writing[n] \in Event /\ None \in Documents /\ writing[n] \in Documents
    BY <1>0, <1>2 DEF Finish, SharedType, Documents
  <2>. QED BY <1>0, <1>2, <2>1 DEF Finish, SharedType, database
<1>3. ASSUME NEW n \in Name, NEW e \in Event, Submit(n, e) \/ Open(n, e)
      PROVE  SharedType'
  <2>1. e \in Documents /\ Fragment \in Documents
    BY ListenerAssumption DEF Documents
  <2>2. CASE Submit(n, e)
    BY <1>0, <2>1, <2>2 DEF Submit, SharedType, database
  <2>3. CASE Open(n, e)
    BY <1>0, <2>1, <2>3, ListenerAssumption DEF Open, SharedType, database
  <2>. QED BY <1>3, <2>2, <2>3
<1>4. ASSUME Ambient
      PROVE  SharedType'
  BY <1>0, <1>4 DEF Ambient, Recover, SetClock, SharedType, producer, database
<1>5. ASSUME UNCHANGED vars
      PROVE  SharedType'
  BY <1>0, <1>5 DEF vars, SharedType
<1>6. SharedType'
  BY <1>2, <1>3, <1>4, <1>5, ListenerAssumption DEF Produce
<1>. QED BY <1>1, <1>6, TypePartsNext

(* Type correctness is preserved by every step of a listener.              *)
LEMMA ListenerType ==
  ASSUME TypeOK, NEW l \in Listener, ListenerStep(l) \/ Crash(l)
  PROVE  TypeOK'
<1>0. SharedType /\ LocalType /\ HandsOK
  BY TypeParts
<1>1. HandOK(pc[l], todo[l], file[l], doc[l], verdict[l])
  BY <1>0 DEF HandsOK
<1>2. /\ todo[l] \in SUBSET Name /\ file[l] \in Name \cup {None}
      /\ doc[l] \in Documents /\ verdict[l] \in Table \cup {None}
  BY <1>0 DEF LocalType
<1>3. /\ todo = [todo EXCEPT ![l] = todo[l]] /\ file = [file EXCEPT ![l] = file[l]]
      /\ doc = [doc EXCEPT ![l] = doc[l]] /\ verdict = [verdict EXCEPT ![l] = verdict[l]]
  BY <1>0 DEF LocalType
<1> USE DEF GoTo
<1>4. CASE Poll(l)
  <2> DEFINE S == {n \in Name : inbox[n] # None}
  <2>1. HandOK("next", S, file[l], doc[l], verdict[l])
    BY <1>4 DEF Poll, HandOK, Busy
  <2>4. pc' = [pc EXCEPT ![l] = "next"] /\ todo' = [todo EXCEPT ![l] = S]
    BY <1>4 DEF Poll
  <2>5. /\ file' = [file EXCEPT ![l] = file[l]]
        /\ doc' = [doc EXCEPT ![l] = doc[l]]
        /\ verdict' = [verdict EXCEPT ![l] = verdict[l]]
    BY <1>3, <1>4 DEF Poll
  <2>6. S \in SUBSET Name
    OBVIOUS
  <2> HIDE DEF S
  <2>2. LocalType' /\ HandsOK'
    BY <1>2, <2>1, <2>4, <2>5, <2>6, MoveType
  <2>3. SharedType'
    BY <1>0, <1>4 DEF Poll, SharedType, producer, database
  <2>. QED BY <2>2, <2>3, TypePartsNext
<1>5. CASE Read(l)
  <2>1. SharedType'
    BY <1>0, <1>5 DEF Read, SharedType, producer, database
  <2>2. PICK n \in todo[l] :
          /\ todo' = [todo EXCEPT ![l] = @ \ {n}]
          /\ \/ /\ Readable(inbox[n])
                /\ file' = [file EXCEPT ![l] = n]
                /\ doc' = [doc EXCEPT ![l] = inbox[n]]
                /\ pc' = [pc EXCEPT ![l] = "check"]
                /\ UNCHANGED verdict
             \/ FileDone(l)
    BY <1>5 DEF Read
  <2>3. n \in Name
    BY <1>2, <2>2
  <2>4. todo' = [todo EXCEPT ![l] = todo[l] \ {n}] /\ todo[l] \ {n} \in SUBSET Name
    BY <1>0, <1>2, <2>2 DEF LocalType
  <2>5. CASE FileDone(l)
    <3>1. /\ todo' \in [Listener -> SUBSET Name]
          /\ \A m \in Listener : m # l => todo'[m] = todo[m]
      BY <1>0, <2>4 DEF LocalType
    <3>. QED BY <2>1, <2>5, <3>1, FileDoneType, TypePartsNext
  <2>6. CASE ~ FileDone(l)
    <3>1. inbox[n] \in Event /\ inbox[n] \in Documents
      BY <1>0, <2>2, <2>3, <2>6 DEF Readable, SharedType, Documents
    <3>2. HandOK("check", todo[l] \ {n}, n, inbox[n], verdict[l])
      BY <2>3, <3>1 DEF HandOK
    <3>4. /\ pc' = [pc EXCEPT ![l] = "check"]
          /\ file' = [file EXCEPT ![l] = n]
          /\ doc' = [doc EXCEPT ![l] = inbox[n]]
          /\ verdict' = [verdict EXCEPT ![l] = verdict[l]]
      BY <1>3, <2>2, <2>6
    <3>5. "check" \in {"idle", "next"} \cup Busy
      BY DEF Busy
    <3>3. LocalType' /\ HandsOK'
      BY <1>2, <2>3, <2>4, <3>1, <3>2, <3>4, <3>5, MoveType
    <3>. QED BY <2>1, <3>3, TypePartsNext
  <2>. QED BY <2>5, <2>6
<1>6. /\ UNCHANGED todo => /\ todo' \in [Listener -> SUBSET Name]
                           /\ \A m \in Listener : m # l => todo'[m] = todo[m]
      /\ Busy \subseteq {"idle", "next"} \cup Busy
  BY <1>0 DEF LocalType
<1>7. CASE Check(l)
  <2>1. SharedType'
    BY <1>0, <1>7 DEF Check, SharedType, producer, database
  <2>2. CASE FileDone(l)
    BY <1>6, <1>7, <2>1, <2>2, FileDoneType, TypePartsNext DEF Check
  <2>3. ASSUME NEW p \in {"judge", "unlink"}, pc' = [pc EXCEPT ![l] = p],
               UNCHANGED <<file, doc, verdict>>
        PROVE  TypeOK'
    <3>1. HandOK(p, todo[l], file[l], doc[l], verdict[l]) /\ p \in Busy
      BY <1>1, <1>7, <2>3 DEF HandOK, Check, Busy
    <3>3. UNCHANGED <<todo, file, doc, verdict>>
      BY <1>7, <2>3 DEF Check
    <3>2. LocalType' /\ HandsOK'
      BY <2>3, <3>1, <3>3, PlaceType
    <3>. QED BY <2>1, <3>2, TypePartsNext
  <2>. QED BY <1>7, <2>2, <2>3 DEF Check
<1>8. CASE Judge(l)
  <2>1. SharedType'
    BY <1>0, <1>8 DEF Judge, SharedType, producer, database
  <2>2. file[l] \in Name /\ doc[l] \in Event
    BY <1>1, <1>8 DEF HandOK, Judge, Busy
  <2>3. Route(doc[l]) \in Table
    BY <2>2, RouteType
  <2>4. HandOK("record", todo[l], file[l], doc[l], Route(doc[l]))
    BY <2>2, <2>3 DEF HandOK
  <2>5. CASE FileDone(l)
    BY <1>6, <1>8, <2>1, <2>5, FileDoneType, TypePartsNext DEF Judge
  <2>6. CASE ~ FileDone(l)
    <3>1. LocalType' /\ HandsOK'
      BY <1>2, <1>3, <1>8, <2>3, <2>4, <2>6, MoveType DEF Judge, Busy
    <3>. QED BY <2>1, <3>1, TypePartsNext
  <2>. QED BY <2>5, <2>6
<1>9. CASE Record(l)
  <2>1. CASE UNCHANGED database /\ FileDone(l)
    <3>1. SharedType'
      BY <1>0, <1>9, <2>1 DEF Record, SharedType, producer, database
    <3>. QED BY <1>6, <1>9, <2>1, <3>1, FileDoneType, TypePartsNext DEF Record
  <2>2. CASE Insert(l)
    <3>1. file[l] \in Name /\ doc[l] \in Event /\ verdict[l] \in Table
      BY <1>1, <1>9 DEF HandOK, Record, Busy
    <3>2. rows' \in [Table -> [Event -> Nat]] /\ audit' \in [Event -> Nat]
      BY <1>0, <2>2, <3>1 DEF Insert, SharedType
    <3>3. SharedType'
      BY <1>0, <1>9, <3>2 DEF Record, SharedType, producer
    <3>4. HandOK("unlink", todo[l], file[l], doc[l], verdict[l])
      BY <3>1 DEF HandOK
    <3>6. /\ todo' = [todo EXCEPT ![l] = todo[l]]
          /\ file' = [file EXCEPT ![l] = file[l]]
          /\ doc' = [doc EXCEPT ![l] = doc[l]]
          /\ verdict' = [verdict EXCEPT ![l] = verdict[l]]
          /\ pc' = [pc EXCEPT ![l] = "unlink"]
      BY <1>3, <1>9, <2>2 DEF Record, Insert
    <3>7. "unlink" \in {"idle", "next"} \cup Busy
      BY DEF Busy
    <3>5. LocalType' /\ HandsOK'
      BY <1>2, <3>4, <3>6, <3>7, MoveType
    <3>. QED BY <3>3, <3>5, TypePartsNext
  <2>. QED BY <1>9, <2>1, <2>2 DEF Record
<1>10. CASE Unlink(l)
  <2>1. file[l] \in Name /\ None \in Documents
    BY <1>1, <1>10 DEF HandOK, Unlink, Busy, Documents
  <2>2. SharedType'
    BY <1>0, <1>10, <2>1 DEF Unlink, SharedType, producer, database
  <2>. QED BY <1>6, <1>10, <2>2, FileDoneType, TypePartsNext DEF Unlink
<1>11. CASE Crash(l)
  <2>1. /\ todo' \in [Listener -> SUBSET Name]
        /\ \A m \in Listener : m # l => todo'[m] = todo[m]
    BY <1>0, <1>11 DEF Crash, LocalType
  <2>2. SharedType'
    BY <1>0, <1>11 DEF Crash, SharedType, producer, database
  <2>. QED BY <1>11, <2>1, <2>2, FileDoneType, TypePartsNext DEF Crash
<1>. QED BY <1>4, <1>5, <1>7, <1>8, <1>9, <1>10, <1>11 DEF ListenerStep

(* Every step preserves type correctness.                                  *)
LEMMA NextType == TypeOK /\ [Next]_vars => TypeOK'
<1> SUFFICES ASSUME TypeOK, [Next]_vars PROVE TypeOK'
  OBVIOUS
<1>1. ASSUME NEW l \in Listener, ListenerStep(l) \/ Crash(l)
      PROVE  TypeOK'
  BY <1>1, ListenerType
<1>2. ASSUME NEW n \in Name, Produce(n)
      PROVE  TypeOK'
  <2>1. UNCHANGED local
    BY <1>2 DEF Produce, Finish, Submit, Open
  <2>. QED BY <1>2, <2>1, ProducerType
<1>3. ASSUME Ambient
      PROVE  TypeOK'
  <2>1. UNCHANGED local
    BY <1>3 DEF Ambient, Recover, SetClock
  <2>. QED BY <1>3, <2>1, ProducerType
<1>4. CASE UNCHANGED vars
  <2>1. UNCHANGED local
    BY <1>4 DEF vars, local
  <2>. QED BY <1>4, <2>1, ProducerType
<1>. QED BY <1>1, <1>2, <1>3, <1>4 DEF Next, Produce, Ambient

(* Type correctness of the inbox, the tables and the listeners.            *)
THEOREM TypeCorrect == Spec => []TypeOK
BY InitType, NextType, PTL DEF Spec

-----------------------------------------------------------------------------
(* A listener's step leaves the other listeners alone.                     *)
LEMMA OthersStay ==
  ASSUME TypeOK, NEW l \in Listener, ListenerStep(l) \/ Crash(l),
         NEW m \in Listener, m # l
  PROVE  /\ pc'[m] = pc[m] /\ file'[m] = file[m]
         /\ doc'[m] = doc[m] /\ verdict'[m] = verdict[m]
<1>1. /\ pc \in [Listener -> {"idle", "next"} \cup Busy]
      /\ file \in [Listener -> Name \cup {None}] /\ doc \in [Listener -> Documents]
      /\ verdict \in [Listener -> Table \cup {None}]
  BY TypeParts DEF LocalType
<1>2. CASE FileDone(l)
  BY <1>1, <1>2 DEF FileDone
<1>3. CASE ~ FileDone(l)
  BY <1>1, <1>3
     DEF ListenerStep, Poll, Read, Check, Judge, Record, Insert, Unlink, Crash, GoTo
<1>. QED BY <1>2, <1>3

(* Only Judge takes a listener to the transaction, and only Record writes  *)
(* to the database.                                                        *)
LEMMA NoRecord ==
  ASSUME TypeOK, NEW l \in Listener,
         \/ Poll(l) \/ Read(l) \/ Check(l) \/ Unlink(l) \/ Crash(l)
         \/ pc[l] \in {"judge", "record"} /\ UNCHANGED database /\ FileDone(l)
  PROVE  pc'[l] # "record" /\ UNCHANGED <<rows, audit>>
<1>1. pc \in [Listener -> {"idle", "next"} \cup Busy]
  BY TypeParts DEF LocalType
<1>2. UNCHANGED <<rows, audit>>
  BY DEF Poll, Read, Check, Unlink, Crash, database
<1>3. CASE FileDone(l)
  BY <1>1, <1>2, <1>3 DEF FileDone
<1>4. CASE ~ FileDone(l)
  BY <1>1, <1>2, <1>4 DEF Poll, Read, Check, Unlink, Crash, GoTo
<1>. QED BY <1>3, <1>4

(* A table has at most one row of an event, and only a table the event     *)
(* deserves.                                                               *)
RowOK(t, e) == rows[t][e] <= 1 /\ (rows[t][e] > 0 => t \in MayGet(e))

RouteInv ==
  /\ \A l \in Listener : pc[l] = "record" => verdict[l] \in MayGet(doc[l])
  /\ \A t \in Table, e \in Event : RowOK(t, e)

(* What Insert does to one row.                                            *)
LEMMA InsertRow ==
  ASSUME TypeOK, NEW l \in Listener, pc[l] = "record", Insert(l),
         NEW t \in Table, NEW e \in Event
  PROVE  /\ doc[l] \in Event /\ verdict[l] \in Table
         /\ rows[t][e] \in Nat /\ audit[e] \in Nat
         /\ rows'[t][e] = IF t = verdict[l] /\ e = doc[l]
                          THEN rows[t][e] + 1 ELSE rows[t][e]
         /\ audit'[e] = IF e = doc[l] THEN audit[e] + 1 ELSE audit[e]
<1>1. doc[l] \in Event /\ verdict[l] \in Table
  BY DEF TypeOK
<1>2. rows \in [Table -> [Event -> Nat]] /\ audit \in [Event -> Nat]
  BY DEF TypeOK
<1>. QED BY <1>1, <1>2 DEF Insert

(* RouteInv is inductive.                                                  *)
LEMMA RouteStep ==
  ASSUME TypeOK, RouteInv, [Next]_vars
  PROVE  RouteInv'
<1>1. ASSUME UNCHANGED <<rows, pc, doc, verdict>>
      PROVE  RouteInv'
  BY <1>1 DEF RouteInv, RowOK
<1>2. ASSUME NEW l \in Listener, ListenerStep(l) \/ Crash(l),
             pc'[l] # "record", UNCHANGED <<rows, audit>>
      PROVE  RouteInv'
  BY <1>2, OthersStay DEF RouteInv, RowOK
<1>3. ASSUME NEW l \in Listener, Judge(l), ~ FileDone(l)
      PROVE  RouteInv'
  <2>1. /\ doc[l] \in Event /\ rows' = rows /\ doc' = doc
        /\ verdict'[l] = Route(doc[l])
    BY <1>3 DEF Judge, TypeOK, database
  <2>2. \A m \in Listener : m # l =>
          pc'[m] = pc[m] /\ doc'[m] = doc[m] /\ verdict'[m] = verdict[m]
    BY <1>3, OthersStay DEF ListenerStep
  <2>3. Route(doc[l]) \in MayGet(doc[l])
    BY <2>1, RouteType
  <2>. QED BY <2>1, <2>2, <2>3 DEF RouteInv, RowOK
<1>4. ASSUME NEW l \in Listener, Record(l), Insert(l),
             rows[verdict[l]][doc[l]] = 0
      PROVE  RouteInv'
  <2>1. pc[l] = "record" /\ pc'[l] = "unlink"
    BY <1>4 DEF Record, Insert, GoTo, TypeOK
  <2>2. ASSUME NEW m \in Listener, pc'[m] = "record"
        PROVE  verdict'[m] \in MayGet(doc'[m])
    <3>1. m # l
      BY <2>1, <2>2
    <3>. QED BY <1>4, <2>2, <3>1, OthersStay DEF RouteInv, ListenerStep
  <2>3. ASSUME NEW t \in Table, NEW e \in Event
        PROVE  RowOK(t, e)'
    <3>1. /\ rows[t][e] \in Nat
          /\ rows'[t][e] = IF t = verdict[l] /\ e = doc[l]
                           THEN rows[t][e] + 1 ELSE rows[t][e]
      BY <1>4, <2>1, InsertRow
    <3>2. verdict[l] \in MayGet(doc[l]) /\ RowOK(t, e)
      BY <2>1 DEF RouteInv
    <3>3. CASE t = verdict[l] /\ e = doc[l]
      BY <1>4, <3>1, <3>2, <3>3 DEF RowOK
    <3>4. CASE ~ (t = verdict[l] /\ e = doc[l])
      BY <3>1, <3>2, <3>4 DEF RowOK
    <3>. QED BY <3>3, <3>4
  <2>. QED BY <2>2, <2>3 DEF RouteInv
<1>5. ASSUME NEW l \in Listener, ListenerStep(l) \/ Crash(l)
      PROVE  RouteInv'
  <2>1. CASE Judge(l)
    <3>1. CASE FileDone(l)
      BY <1>2, <1>5, <2>1, <3>1, NoRecord DEF Judge
    <3>. QED BY <1>3, <2>1, <3>1
  <2>2. CASE Record(l)
    <3>1. CASE rows[verdict[l]][doc[l]] = 0 /\ Insert(l)
      BY <1>4, <2>2, <3>1
    <3>2. CASE UNCHANGED database /\ FileDone(l)
      BY <1>2, <1>5, <2>2, <3>2, NoRecord DEF Record
    <3>. QED BY <2>2, <3>1, <3>2 DEF Record
  <2>3. CASE Poll(l) \/ Read(l) \/ Check(l) \/ Unlink(l) \/ Crash(l)
    BY <1>2, <1>5, <2>3, NoRecord
  <2>. QED BY <1>5, <2>1, <2>2, <2>3 DEF ListenerStep
<1>6. CASE UNCHANGED vars
  BY <1>1, <1>6 DEF vars
<1>7. ASSUME NEW n \in Name, Produce(n)
      PROVE  RouteInv'
  BY <1>1, <1>7 DEF Produce, Finish, Submit, Open, local, database
<1>8. ASSUME Ambient
      PROVE  RouteInv'
  BY <1>1, <1>8 DEF Ambient, Recover, SetClock, local, database
<1>. QED BY <1>5, <1>6, <1>7, <1>8 DEF Next, Produce, Ambient

(* However many listeners share the inbox, an event is accepted at most    *)
(* once: the UNIQUE constraint of its table stops the second transaction.  *)
THEOREM AcceptedOnce == Spec => []OneAcceptance
<1>1. Init => RouteInv
  BY DEF Init, RouteInv, RowOK
<1>2. TypeOK /\ RouteInv /\ [Next]_vars => RouteInv'
  BY RouteStep
<1>3. TypeOK /\ RouteInv => OneAcceptance
  <2> SUFFICES ASSUME TypeOK, RouteInv, NEW e \in Event
               PROVE  rows["ledger"][e] + rows["hitl"][e] <= 1
    BY DEF OneAcceptance
  <2>1. RowOK("ledger", e) /\ RowOK("hitl", e)
    BY DEF RouteInv, Table
  <2>2. rows["ledger"][e] \in Nat /\ rows["hitl"][e] \in Nat
    BY DEF TypeOK, Table
  <2>3. ~ ("ledger" \in MayGet(e) /\ "hitl" \in MayGet(e))
    BY DEF MayGet
  <2>. QED BY <2>1, <2>2, <2>3 DEF RowOK
<1>. QED BY <1>1, <1>2, <1>3, TypeCorrect, PTL DEF Spec

-----------------------------------------------------------------------------
(* A listener unlinks a file only with a committed document in hand.       *)
Committed == \A l \in Listener : pc[l] = "unlink" => audit[doc[l]] > 0

(* Rows of the audit table are only added.                                 *)
LEMMA AuditGrows ==
  ASSUME TypeOK, [Next]_vars, NEW e \in Event
  PROVE  audit'[e] >= audit[e]
<1>1. audit[e] \in Nat
  BY DEF TypeOK
<1>2. CASE UNCHANGED audit
  BY <1>1, <1>2
<1>3. ASSUME NEW l \in Listener, Record(l), Insert(l)
      PROVE  audit'[e] >= audit[e]
  <2>1. pc[l] = "record" /\ "ledger" \in Table
    BY <1>3 DEF Record, Table
  <2>. QED BY <1>1, <1>3, <2>1, InsertRow
<1>4. ASSUME NEW l \in Listener, ListenerStep(l) \/ Crash(l),
             ~ (Record(l) /\ Insert(l))
      PROVE  UNCHANGED audit
  BY <1>4 DEF ListenerStep, Poll, Read, Check, Judge, Record, Unlink, Crash, database
<1>5. ASSUME NEW n \in Name, Produce(n)
      PROVE  UNCHANGED audit
  BY <1>5 DEF Produce, Finish, Submit, Open, database
<1>6. ASSUME Ambient
      PROVE  UNCHANGED audit
  BY <1>6 DEF Ambient, Recover, SetClock, database
<1>7. CASE UNCHANGED vars
  BY <1>2, <1>7 DEF vars
<1>. QED BY <1>2, <1>3, <1>4, <1>5, <1>6, <1>7 DEF Next, Produce, Ambient

(* Committed is inductive: only the look-up and the transaction take a     *)
(* listener to the unlink.                                                 *)
LEMMA CommittedStep ==
  ASSUME TypeOK, Committed, [Next]_vars
  PROVE  Committed'
<1>0. /\ pc \in [Listener -> {"idle", "next"} \cup Busy]
      /\ \A l \in Listener : pc[l] \in Busy => doc[l] \in Event
  BY DEF TypeOK, Busy
<1>1. ASSUME NEW l \in Listener, pc[l] = "unlink" => audit[doc[l]] > 0,
             pc'[l] = pc[l], doc'[l] = doc[l]
      PROVE  pc'[l] = "unlink" => audit'[doc'[l]] > 0
  <2>1. SUFFICES ASSUME pc[l] = "unlink"
                 PROVE  audit'[doc[l]] > 0
    BY <1>1
  <2>2. doc[l] \in Event
    BY <1>0, <2>1 DEF Busy
  <2>3. /\ audit[doc[l]] \in Nat /\ audit'[doc[l]] \in Nat
        /\ audit[doc[l]] > 0
    BY <1>1, <2>1, <2>2, NextType DEF TypeOK
  <2>. QED BY <2>2, <2>3, AuditGrows
<1>2. ASSUME NEW l \in Listener, ListenerStep(l) \/ Crash(l)
      PROVE  pc'[l] = "unlink" => audit'[doc'[l]] > 0
  <2>1. CASE FileDone(l)
    <3>1. pc'[l] # "unlink"
      BY <1>0, <2>1 DEF FileDone
    <3>. QED BY <3>1
  <2>2. CASE Check(l) /\ ~ FileDone(l)
    <3>1. /\ pc[l] \in Busy /\ audit' = audit /\ doc' = doc
          /\ pc'[l] = IF Recorded(doc[l]) THEN "unlink" ELSE "judge"
      BY <1>0, <2>2 DEF Check, GoTo, database, Busy
    <3>. QED BY <3>1 DEF Recorded
  <2>3. CASE Record(l) /\ Insert(l)
    <3>1. pc[l] = "record" /\ doc' = doc /\ "ledger" \in Table
      BY <2>3 DEF Record, Insert, Table
    <3>2. doc[l] \in Event
      BY <1>0, <3>1 DEF Busy
    <3>3. audit[doc[l]] \in Nat /\ audit'[doc[l]] = audit[doc[l]] + 1
      BY <2>3, <3>1, <3>2, InsertRow
    <3>. QED BY <3>1, <3>3
  <2>4. CASE (Poll(l) \/ Read(l) \/ Judge(l)) /\ ~ FileDone(l)
    <3>1. pc'[l] # "unlink"
      BY <1>0, <2>4 DEF Poll, Read, Judge, GoTo
    <3>. QED BY <3>1
  <2>. QED BY <1>2, <2>1, <2>2, <2>3, <2>4
           DEF ListenerStep, Record, Unlink, Crash
<1>3. ASSUME NEW l \in Listener, ListenerStep(l) \/ Crash(l)
      PROVE  Committed'
  <2> SUFFICES ASSUME NEW m \in Listener
               PROVE  pc'[m] = "unlink" => audit'[doc'[m]] > 0
    BY DEF Committed
  <2>1. CASE m = l
    BY <1>2, <1>3, <2>1
  <2>2. CASE m # l
    BY <1>1, <1>3, <2>2, OthersStay DEF Committed
  <2>. QED BY <2>1, <2>2
<1>4. ASSUME UNCHANGED <<pc, doc>>
      PROVE  Committed'
  BY <1>1, <1>4 DEF Committed
<1>5. ASSUME NEW n \in Name, Produce(n)
      PROVE  Committed'
  BY <1>4, <1>5 DEF Produce, Finish, Submit, Open, local
<1>6. ASSUME Ambient
      PROVE  Committed'
  BY <1>4, <1>6 DEF Ambient, Recover, SetClock, local
<1>7. CASE UNCHANGED vars
  BY <1>4, <1>7 DEF vars
<1>. QED BY <1>3, <1>5, <1>6, <1>7 DEF Next, Produce, Ambient

(* What a step does to the last unrecorded copy of a document.             *)
LEMMA CopyStep ==
  ASSUME TypeOK, Committed, [Next]_vars, NEW e \in Event, Kept(e), ~ Kept(e)'
  PROVE  Displaced(e) \/ Overtook(e)
<1>0. /\ inbox \in [Name -> Documents] /\ e # None
      /\ \A l \in Listener : pc[l] \in Busy => file[l] \in Name
  BY ListenerAssumption DEF TypeOK, Busy
<1>1. ~ (audit[e] > 0) /\ ~ (audit'[e] > 0)
  <2>1. audit[e] \in Nat /\ audit'[e] \in Nat
    BY NextType DEF TypeOK
  <2>. QED BY <2>1, AuditGrows DEF Kept
<1>2. PICK n \in Name : inbox[n] = e
  BY <1>1 DEF Kept
<1>3. inbox'[n] # e
  BY <1>2 DEF Kept
<1>4. ASSUME NEW k \in Name, Produce(k)
      PROVE  Displaced(e)
  <2>1. None \notin Event /\ Fragment \in Event
    BY ListenerAssumption
  <2>2. inbox'[n] # None
    BY <1>0, <1>2, <1>3, <1>4, <2>1 DEF Produce, Finish, Submit, Open
  <2>. QED BY <1>2, <1>3, <2>2 DEF Displaced
<1>5. ASSUME NEW l \in Listener, Unlink(l)
      PROVE  Overtook(e)
  <2>1. /\ pc[l] = "unlink" /\ file[l] \in Name /\ audit[doc[l]] > 0
        /\ inbox' = [inbox EXCEPT ![file[l]] = None]
    BY <1>0, <1>3, <1>2, <1>5 DEF Unlink, Busy, Committed
  <2>2. n = file[l]
    BY <1>0, <1>2, <1>3, <2>1
  <2>3. doc[l] # e
    BY <1>1, <2>1
  <2>. QED BY <1>2, <2>1, <2>2, <2>3 DEF Overtook
<1>6. ASSUME NEW l \in Listener, ListenerStep(l) \/ Crash(l), ~ Unlink(l)
      PROVE  UNCHANGED inbox
  BY <1>6 DEF ListenerStep, Poll, Read, Check, Judge, Record, Crash
<1>7. ASSUME Ambient
      PROVE  UNCHANGED inbox
  BY <1>7 DEF Ambient, Recover, SetClock
<1>8. CASE UNCHANGED vars
  BY <1>2, <1>3, <1>8 DEF vars
<1>. QED BY <1>2, <1>3, <1>4, <1>5, <1>6, <1>7, <1>8 DEF Next, Produce, Ambient

(* However many listeners share the inbox and whatever producers do, no    *)
(* unrecorded document is taken out of it unread, but for one that took    *)
(* the name of a file a listener had in its hands.                         *)
THEOREM NeverLost == Spec => EventIsKept
<1>1. Init => Committed
  BY DEF Init, Committed
<1>2. TypeOK /\ Committed /\ [Next]_vars => Committed'
  BY CommittedStep
<1>3. TypeOK /\ Committed /\ [Next]_vars =>
        [\A e \in Event : Kept(e) /\ ~ Kept(e)' => Displaced(e) \/ Overtook(e)]_vars
  BY CopyStep
<1>. QED BY <1>1, <1>2, <1>3, TypeCorrect, PTL DEF Spec, EventIsKept

-----------------------------------------------------------------------------
(* One listener.                                                           *)
Alone == \A l, m \in Listener : l = m

(* Every document in the inbox or in a listener's hands was offered.       *)
InboxInv ==
  /\ \A n \in Name : writing[n] # None => writing[n] \in InPlace
  /\ \A n \in Name : inbox[n] # None => inbox[n] \in submitted
  /\ \A l \in Listener : pc[l] \in Busy => doc[l] \in submitted

(* Past the look-up the event is not recorded, past the transaction it is. *)
LookupInv ==
  /\ \A l \in Listener : pc[l] \in {"judge", "record"} => audit[doc[l]] = 0
  /\ \A l \in Listener : pc[l] = "unlink" => audit[doc[l]] > 0
  /\ \A t \in Table, e \in Event : rows[t][e] > 0 => audit[e] > 0

SInv == InboxInv /\ LookupInv /\ OneOutcome

(* An empty inbox and empty tables satisfy it.                             *)
LEMMA InitAlone == Init => SInv
BY DEF Init, SInv, InboxInv, LookupInv, OneOutcome, Busy

(* Producers and the rest of the surroundings preserve SInv.               *)
LEMMA ProducerAlone ==
  ASSUME TypeOK, SInv, UNCHANGED <<local, database>>,
         UNCHANGED <<inbox, producer>> \/ \E n \in Name : Produce(n)
  PROVE  SInv'
<1>1. LookupInv' /\ OneOutcome'
  BY DEF SInv, LookupInv, OneOutcome, local, database
<1>2. CASE UNCHANGED <<inbox, producer>>
  BY <1>1, <1>2 DEF SInv, InboxInv, producer, local, database
<1>3. inbox \in [Name -> Documents] /\ writing \in [Name -> Documents]
  BY DEF TypeOK
<1>4. ASSUME NEW n \in Name, Produce(n)
      PROVE  InboxInv'
  <2>1. /\ \A l \in Listener : pc'[l] \in Busy => doc'[l] \in submitted
        /\ submitted \subseteq submitted'
    BY <1>4 DEF Produce, Finish, Submit, Open, SInv, InboxInv, local
  <2>2. \A k \in Name : writing'[k] # None => writing'[k] \in InPlace
    BY <1>3, <1>4 DEF Produce, Finish, Submit, Open, SInv, InboxInv
  <2>3. \A k \in Name : inbox'[k] # None => inbox'[k] \in submitted'
    BY <1>3, <1>4 DEF Produce, Finish, Submit, Open, SInv, InboxInv
  <2>. QED BY <2>1, <2>2, <2>3 DEF InboxInv
<1>. QED BY <1>1, <1>2, <1>4 DEF SInv

(* A step of the listener that leaves the inbox and the database alone.    *)
LEMMA QuietAlone ==
  ASSUME TypeOK, SInv, Alone, NEW l \in Listener,
         UNCHANGED <<inbox, producer, database>>,
         pc'[l] \in Busy => doc'[l] \in submitted,
         pc'[l] \in {"judge", "record"} => audit[doc'[l]] = 0,
         pc'[l] = "unlink" => audit[doc'[l]] > 0
  PROVE  SInv'
<1>1. \A m \in Listener : m = l
  BY DEF Alone
<1>2. InboxInv'
  BY <1>1 DEF SInv, InboxInv, producer
<1>3. LookupInv'
  BY <1>1 DEF SInv, LookupInv, database
<1>4. OneOutcome'
  BY DEF SInv, OneOutcome, database
<1>. QED BY <1>2, <1>3, <1>4 DEF SInv

(* The listener preserves SInv.                                            *)
LEMMA ListenerAlone ==
  ASSUME TypeOK, SInv, Alone, NEW l \in Listener, ListenerStep(l) \/ Crash(l)
  PROVE  SInv'
<1>1. /\ pc \in [Listener -> {"idle", "next"} \cup Busy]
      /\ file \in [Listener -> Name \cup {None}] /\ doc \in [Listener -> Documents]
      /\ todo \in [Listener -> SUBSET Name]
  BY TypeParts DEF LocalType
<1>2. pc[l] \in Busy => /\ file[l] \in Name /\ doc[l] \in Event
                        /\ doc[l] \in submitted
  BY TypeParts DEF SInv, InboxInv, HandsOK, HandOK
<1>3. ASSUME FileDone(l)
      PROVE  pc'[l] \notin Busy
  BY <1>1, <1>3 DEF FileDone, Busy
<1>4. ASSUME FileDone(l), UNCHANGED <<inbox, producer, database>>
      PROVE  SInv'
  BY <1>3, <1>4, QuietAlone DEF Busy
<1>5. ASSUME NEW p, pc' = [pc EXCEPT ![l] = p], UNCHANGED <<file, doc>>,
             UNCHANGED <<inbox, producer, database>>, pc[l] \in Busy,
             p \in {"judge", "record"} => audit[doc[l]] = 0,
             p = "unlink" => audit[doc[l]] > 0
      PROVE  SInv'
  <2>1. pc'[l] = p /\ file'[l] = file[l] /\ doc'[l] = doc[l]
    BY <1>1, <1>5
  <2>. QED BY <1>2, <1>5, <2>1, QuietAlone
<1>6. CASE Poll(l)
  <2>1. pc'[l] = "next" /\ UNCHANGED <<inbox, producer, database>>
    BY <1>1, <1>6 DEF Poll, GoTo
  <2>. QED BY <2>1, QuietAlone DEF Busy
<1>7. CASE Read(l)
  <2>1. CASE FileDone(l)
    BY <1>4, <1>7, <2>1 DEF Read
  <2>2. CASE ~ FileDone(l)
    <3>1. /\ pc'[l] = "check" /\ inbox[file'[l]] = doc'[l]
          /\ file'[l] \in Name /\ doc'[l] # None
          /\ UNCHANGED <<inbox, producer, database>>
      BY <1>1, <1>7, <2>2 DEF Read, Readable, GoTo
    <3>2. doc'[l] \in submitted
      BY <3>1 DEF SInv, InboxInv
    <3>. QED BY <3>1, <3>2, QuietAlone
  <2>. QED BY <2>1, <2>2
<1>8. CASE Check(l)
  <2>1. CASE FileDone(l)
    BY <1>4, <1>8, <2>1 DEF Check
  <2>2. audit[doc[l]] \in Nat /\ pc[l] \in Busy
    BY <1>2, <1>8 DEF Check, TypeOK, Busy
  <2>3. CASE GoTo(l, IF Recorded(doc[l]) THEN "unlink" ELSE "judge")
             /\ UNCHANGED <<file, doc, verdict>>
    <3>1. CASE Recorded(doc[l])
      BY <1>5, <1>8, <2>2, <2>3, <3>1 DEF Check, GoTo, Recorded
    <3>2. CASE ~ Recorded(doc[l])
      <4>1. audit[doc[l]] = 0
        BY <2>2, <3>2 DEF Recorded
      <4>. QED BY <1>5, <1>8, <2>2, <2>3, <3>2, <4>1 DEF Check, GoTo
    <3>. QED BY <3>1, <3>2
  <2>. QED BY <1>8, <2>1, <2>3 DEF Check
<1>9. CASE Judge(l)
  <2>1. audit[doc[l]] = 0 /\ pc[l] \in Busy
    BY <1>9 DEF Judge, SInv, LookupInv, Busy
  <2>2. CASE FileDone(l)
    BY <1>4, <1>9, <2>2 DEF Judge
  <2>. QED BY <1>5, <1>9, <2>1, <2>2 DEF Judge, GoTo
<1>10. CASE Record(l)
  <2>1. CASE UNCHANGED database /\ FileDone(l)
    BY <1>4, <1>10, <2>1 DEF Record
  <2>2. CASE Insert(l)
    <3>1. /\ pc[l] = "record" /\ UNCHANGED <<inbox, producer, file, doc>>
          /\ pc'[l] = "unlink"
      BY <1>1, <1>10, <2>2 DEF Record, Insert, GoTo
    <3>2. /\ doc[l] \in Event /\ audit[doc[l]] = 0
          /\ \A e \in Event, t \in Table :
               /\ rows[t][e] \in Nat /\ audit[e] \in Nat
               /\ rows'[t][e] = IF t = verdict[l] /\ e = doc[l]
                                THEN rows[t][e] + 1 ELSE rows[t][e]
               /\ audit'[e] = IF e = doc[l] THEN audit[e] + 1 ELSE audit[e]
      BY <2>2, <3>1, InsertRow DEF SInv, LookupInv, TypeOK
    <3>3. \A t \in Table : rows[t][doc[l]] = 0
      BY <3>2 DEF SInv, LookupInv
    <3>4. \A e \in Event : audit[e] \in Nat /\ audit'[e] = IF e = doc[l] THEN 1 ELSE audit[e]
      BY <3>2 DEF TypeOK, Table
    <3>5. InboxInv'
      BY <1>2, <3>1 DEF SInv, InboxInv, Alone, producer, Busy
    <3>6. \A t \in Table, e \in Event : rows'[t][e] > 0 => audit'[e] > 0
      BY <3>2, <3>4 DEF SInv, LookupInv
    <3>7. LookupInv'
      BY <3>1, <3>2, <3>4, <3>6 DEF SInv, LookupInv, Alone
    <3>8. OneOutcome'
      <4> SUFFICES ASSUME NEW e \in Event
                   PROVE  /\ \A t \in Table : rows'[t][e] <= 1
                          /\ \A t, u \in Table :
                               rows'[t][e] > 0 /\ rows'[u][e] > 0 => t = u
        BY DEF OneOutcome
      <4>1. CASE e = doc[l]
        BY <3>2, <3>3, <4>1
      <4>2. CASE e # doc[l]
        BY <3>2, <4>2 DEF SInv, OneOutcome
      <4>. QED BY <4>1, <4>2
    <3>. QED BY <3>5, <3>7, <3>8 DEF SInv
  <2>. QED BY <1>10, <2>1, <2>2 DEF Record
<1>11. CASE Unlink(l)
  <2>1. CASE UNCHANGED inbox
    BY <1>4, <1>11, <2>1 DEF Unlink
  <2>2. CASE inbox' = [inbox EXCEPT ![file[l]] = None]
    <3>1. /\ UNCHANGED <<producer, database>> /\ pc'[l] \notin Busy
          /\ file[l] \in Name /\ inbox \in [Name -> Documents]
      BY <1>2, <1>3, <1>11 DEF Unlink, Busy, TypeOK
    <3>2. \A n \in Name : inbox'[n] = IF n = file[l] THEN None ELSE inbox[n]
      BY <2>2, <3>1
    <3>3. InboxInv'
      BY <3>1, <3>2 DEF SInv, InboxInv, Alone, producer
    <3>4. LookupInv' /\ OneOutcome'
      BY <3>1 DEF SInv, LookupInv, OneOutcome, Alone, database, Busy
    <3>. QED BY <3>3, <3>4 DEF SInv
  <2>. QED BY <1>11, <2>1, <2>2 DEF Unlink
<1>12. CASE Crash(l)
  BY <1>4, <1>12 DEF Crash
<1>. QED BY <1>6, <1>7, <1>8, <1>9, <1>10, <1>11, <1>12 DEF ListenerStep

(* SInv is inductive.                                                      *)
LEMMA StepAlone == TypeOK /\ SInv /\ Alone /\ [Next]_vars => SInv'
<1> SUFFICES ASSUME TypeOK, SInv, Alone, [Next]_vars PROVE SInv'
  OBVIOUS
<1>1. ASSUME NEW l \in Listener, ListenerStep(l) \/ Crash(l)
      PROVE  SInv'
  BY <1>1, ListenerAlone
<1>2. ASSUME NEW n \in Name, Produce(n)
      PROVE  SInv'
  <2>1. UNCHANGED <<local, database>>
    BY <1>2 DEF Produce, Finish, Submit, Open
  <2>. QED BY <1>2, <2>1, ProducerAlone
<1>3. ASSUME Ambient
      PROVE  SInv'
  BY <1>3, ProducerAlone DEF Ambient, Recover, SetClock
<1>4. CASE UNCHANGED vars
  <2>1. UNCHANGED <<local, database>> /\ UNCHANGED <<inbox, producer>>
    BY <1>4 DEF vars, local, database, producer
  <2>. QED BY <2>1, ProducerAlone
<1>. QED BY <1>1, <1>2, <1>3, <1>4 DEF Next, Produce, Ambient

(* The invariant of the single listener in every reachable state.          *)
LEMMA InvAlone == ASSUME Alone PROVE Spec => []SInv
<1>1. TypeOK /\ SInv /\ [Next]_vars => SInv'
  BY StepAlone
<1>. QED BY <1>1, InitAlone, TypeCorrect, PTL DEF Spec

(* A single listener records an event once, whatever crashes, failing      *)
(* disks, failing databases and jumps of the clock do.                     *)
THEOREM RecordedOnce == ASSUME Alone PROVE Spec => []OneOutcome
<1>1. SInv => OneOutcome
  BY DEF SInv
<1>2. Spec => []SInv
  BY InvAlone
<1>. QED BY <1>1, <1>2, PTL

-----------------------------------------------------------------------------
(* The outcome of an event is the table that has its row.                  *)
LEMMA OutcomeIs ==
  ASSUME NEW e, NEW t \in Table, rows[t][e] > 0,
         \A u \in Table : rows[u][e] > 0 => u = t
  PROVE  OutcomeOf(e) = t
BY DEF OutcomeOf

(* Only a transaction changes an outcome: it decides an event that is      *)
(* offered and undecided.                                                  *)
LEMMA InsertDecides ==
  ASSUME TypeOK, RouteInv, SInv, NEW l \in Listener, Record(l), Insert(l)
  PROVE  Promise!Decide(doc[l])
<1>1. /\ pc[l] = "record" /\ UNCHANGED <<inbox, producer>>
      /\ verdict[l] \in MayGet(doc[l])
  BY DEF Record, RouteInv
<1>2. /\ doc[l] \in Event /\ verdict[l] \in Table /\ file[l] \in Name
      /\ audit[doc[l]] = 0
  BY <1>1, TypeParts DEF HandsOK, HandOK, SInv, LookupInv, Busy
<1>3. doc[l] \in submitted
  BY <1>1 DEF SInv, InboxInv, Busy
<1>4. ASSUME NEW t \in Table, NEW e \in Event
      PROVE  /\ rows[t][e] \in Nat
             /\ rows'[t][e] = IF t = verdict[l] /\ e = doc[l]
                              THEN rows[t][e] + 1 ELSE rows[t][e]
  BY <1>1, InsertRow
<1>5. \A t \in Table : rows[t][doc[l]] = 0
  BY <1>2, <1>4 DEF SInv, LookupInv
<1>6. OutcomeOf(doc[l]) = None
  BY <1>5 DEF OutcomeOf
<1>7. OutcomeOf(doc[l])' = verdict[l]
  <2>1. \A t \in Table : rows'[t][doc[l]] > 0 <=> t = verdict[l]
    BY <1>2, <1>4, <1>5
  <2>2. \E t \in Table : rows'[t][doc[l]] > 0
    BY <1>2, <2>1
  <2>3. (CHOOSE t \in Table : rows'[t][doc[l]] > 0) = verdict[l]
    <3>1. \A t \in Table : rows'[t][doc[l]] > 0 => t = verdict[l]
      BY <2>1
    <3>. QED BY <2>2, <3>1
  <2>4. doc' = doc
    BY DEF Insert
  <2>5. OutcomeOf(doc[l])' = CHOOSE t \in Table : rows'[t][doc[l]] > 0
    BY <2>2, <2>4 DEF OutcomeOf
  <2>. QED BY <2>3, <2>5
<1>8. \A e \in Event : e # doc[l] => OutcomeOf(e)' = OutcomeOf(e)
  <2>. SUFFICES ASSUME NEW e \in Event, e # doc[l]
                PROVE  OutcomeOf(e)' = OutcomeOf(e)
    OBVIOUS
  <2>1. \A t \in Table : rows'[t][e] = rows[t][e]
    BY <1>4
  <2>2. OutcomeOf(e)' = IF \E t \in Table : rows'[t][e] > 0
                        THEN CHOOSE t \in Table : rows'[t][e] > 0 ELSE None
    BY DEF OutcomeOf
  <2>3. OutcomeOf(e) = IF \E t \in Table : rows[t][e] > 0
                       THEN CHOOSE t \in Table : rows[t][e] > 0 ELSE None
    BY DEF OutcomeOf
  <2>4. (CHOOSE t \in Table : rows'[t][e] > 0) = CHOOSE t \in Table : rows[t][e] > 0
    BY <2>1
  <2>5. (\E t \in Table : rows'[t][e] > 0) <=> \E t \in Table : rows[t][e] > 0
    BY <2>1
  <2>. QED
    <3>1. CASE \E t \in Table : rows[t][e] > 0
      <4>1. OutcomeOf(e)' = CHOOSE t \in Table : rows'[t][e] > 0
        BY <2>2, <2>5, <3>1
      <4>2. OutcomeOf(e) = CHOOSE t \in Table : rows[t][e] > 0
        BY <2>3, <3>1
      <4>. QED BY <4>1, <4>2, <2>4
    <3>2. CASE ~ \E t \in Table : rows[t][e] > 0
      <4>1. OutcomeOf(e)' = None
        BY <2>2, <2>5, <3>2
      <4>2. OutcomeOf(e) = None
        BY <2>3, <3>2
      <4>. QED BY <4>1, <4>2
    <3>. QED BY <3>1, <3>2
<1> DEFINE d == doc[l]
           F == [e \in Event |-> OutcomeOf(e)]
<1>9. \A e \in Event : OutcomeOf(e)' = IF e = d THEN verdict[l] ELSE OutcomeOf(e)
  <2>1. doc' = doc
    BY DEF Insert
  <2>. QED BY <1>7, <1>8, <2>1
<1>10. F' = [F EXCEPT ![d] = verdict[l]]
  BY <1>9
<1>11. F[d] = None /\ d \in submitted /\ UNCHANGED submitted
  BY <1>1, <1>2, <1>3, <1>6 DEF producer
<1>12. \E o \in [e \in Event |-> MayGet(e)][d] : F' = [F EXCEPT ![d] = o]
  BY <1>1, <1>2, <1>10
<1>. QED BY <1>11, <1>12 DEF Promise!Decide

(* Everything else leaves the tables alone.                                *)
LEMMA TablesStay ==
  ASSUME UNCHANGED database
  PROVE  [e \in Event |-> OutcomeOf(e)]' = [e \in Event |-> OutcomeOf(e)]
BY DEF database, OutcomeOf

(* Every step of a single listener and of any producer is a step of the    *)
(* promise or leaves it alone.                                             *)
LEMMA StepRefines ==
  ASSUME TypeOK, RouteInv, SInv, Alone, [Next]_vars
  PROVE  [Promise!Next]_(Promise!vars)
<1>1. ASSUME UNCHANGED <<database, submitted>>
      PROVE  UNCHANGED Promise!vars
  BY <1>1, TablesStay DEF Promise!vars
<1>2. ASSUME NEW l \in Listener, ListenerStep(l) \/ Crash(l)
      PROVE  [Promise!Next]_(Promise!vars)
  <2>1. CASE Record(l) /\ Insert(l)
    <3>1. Promise!Decide(doc[l]) /\ doc[l] \in Event
      BY <2>1, InsertDecides, TypeParts DEF HandsOK, HandOK, Record, Busy
    <3>. QED BY <3>1 DEF Promise!Next
  <2>2. CASE ~ (Record(l) /\ Insert(l))
    <3>1. UNCHANGED <<database, submitted>>
      BY <1>2, <2>2 DEF ListenerStep, Poll, Read, Check, Judge, Record, Unlink,
                        Crash, producer
    <3>. QED BY <1>1, <3>1
  <2>. QED BY <2>1, <2>2
<1>3. ASSUME NEW n \in Name, NEW e \in Event, Submit(n, e)
      PROVE  [Promise!Next]_(Promise!vars)
  <2>1. Promise!Offer(e)
    BY <1>3, TablesStay DEF Submit, Promise!Offer
  <2>. QED BY <2>1 DEF Promise!Next
<1>4. ASSUME NEW n \in Name, NEW e \in InPlace, Open(n, e)
      PROVE  [Promise!Next]_(Promise!vars)
  <2>1. Promise!Offer(Fragment)
    BY <1>4, TablesStay DEF Open, Promise!Offer
  <2>. QED BY <2>1, ListenerAssumption DEF Promise!Next
<1>5. ASSUME NEW n \in Name, Finish(n)
      PROVE  [Promise!Next]_(Promise!vars)
  <2>1. Promise!Offer(writing[n])
    BY <1>5, TablesStay DEF Finish, Promise!Offer
  <2>2. writing[n] \in Event
    BY <1>5 DEF Finish, TypeOK, Documents
  <2>. QED BY <2>1, <2>2 DEF Promise!Next
<1>7. ASSUME Ambient
      PROVE  [Promise!Next]_(Promise!vars)
  BY <1>1, <1>7 DEF Ambient, Recover, SetClock, producer
<1>6. CASE UNCHANGED vars
  BY <1>1, <1>6 DEF vars, database
<1>. QED BY <1>2, <1>3, <1>4, <1>5, <1>6, <1>7, ListenerAssumption DEF Next, Ambient

(* The listener implements the intake: every offered event gets at most    *)
(* one outcome, one that it deserves.                                      *)
THEOREM Refinement == ASSUME Alone PROVE Spec => ImplementsEventIntake
<1>1. Init => Promise!Init
  BY DEF Init, Promise!Init, OutcomeOf
<1>2. TypeOK /\ RouteInv /\ SInv /\ [Next]_vars => [Promise!Next]_(Promise!vars)
  BY StepRefines
<1>3. Spec => []SInv
  BY InvAlone
<1>4. Spec => []RouteInv
  <2>1. Init => RouteInv
    BY DEF Init, RouteInv, RowOK
  <2>2. TypeOK /\ RouteInv /\ [Next]_vars => RouteInv'
    BY RouteStep
  <2>. QED BY <2>1, <2>2, TypeCorrect, PTL DEF Spec
<1>. QED BY <1>1, <1>2, <1>3, <1>4, TypeCorrect, PTL
     DEF Spec, ImplementsEventIntake, Promise!Spec
=============================================================================
