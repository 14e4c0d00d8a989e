------------------------------ MODULE Listener ------------------------------
(***************************************************************************)
(* The interop listener of controller/v91_listener.py: a directory of      *)
(* event files, polled; each file is read, looked up in the audit table,   *)
(* judged and recorded in one transaction, and only then unlinked.  A      *)
(* listener may die, the database or the file system may fail it, and the  *)
(* wall clock it judges by may jump, between any two of its steps.         *)
(*                                                                         *)
(* An event stands for its event_id: the digest of the canonical document, *)
(* or of the raw bytes of a file that is not JSON.  A table's row and the  *)
(* audit row of the same transaction are kept apart, as in the schema.     *)
(***************************************************************************)
EXTENDS Integers

CONSTANTS
  Listener,
  Name,              \* file names; numbers, in the order sorted() gives them
  Event, Fragment,   \* documents; Fragment is a file that is still empty
  Kind,              \* Kind[e]: how the pipeline finds the document
  Stamp,             \* Stamp[e]: the document's signed timestamp
  MaxAge, MaxAhead,  \* 300 s and 60 s
  MaxTime,           \* bound: the clock shows 0 .. MaxTime
  InPlace,           \* the documents that are written in the inbox itself
  Faults,            \* BOOLEAN: crashes, database errors and I/O errors
  None

Kinds == {"undecodable", "unencodable", "oddSignature",   \* process_file raises
          "unparsable", "badEnvelope", "badPayload", "risky", "plain"}
Table == {"ledger", "hitl", "quarantine"}

ASSUME ListenerAssumption ==
  /\ Name \subseteq Nat
  /\ Fragment \in Event /\ None \notin Event
  /\ Kind \in [Event -> Kinds] /\ Kind[Fragment] = "unparsable"
  /\ Stamp \in [Event -> Int]
  /\ MaxAge \in Nat /\ MaxAhead \in Nat /\ MaxTime \in Nat
  /\ InPlace \subseteq Event \ {Fragment} /\ Faults \in BOOLEAN

VARIABLES
  now,         \* the wall clock
  faulty,      \* are crashes and errors still possible?
  inbox,       \* the document under each name, or None
  writing,     \* the document a producer is writing under a name, or None
  submitted,   \* history: the documents that were offered, the empty one
               \* included when a producer writes in place
  rows,        \* the three event tables: rows of a document in each
  audit,       \* v91_audit_log: rows of a document
  pc, todo,    \* each listener's place, and the listed names still to do
  file, doc,   \* the file at hand and the document read from it
  verdict      \* the table the document is routed to

vars == <<now, faulty, inbox, writing, submitted, rows, audit, pc, todo, file, doc, verdict>>
producer == <<writing, submitted>>
database == <<rows, audit>>
local == <<pc, todo, file, doc, verdict>>

Init ==
  /\ now = 0 /\ faulty = Faults
  /\ inbox = [n \in Name |-> None] /\ writing = [n \in Name |-> None]
  /\ submitted = {}
  /\ rows = [t \in Table |-> [e \in Event |-> 0]]
  /\ audit = [e \in Event |-> 0]
  /\ pc = [l \in Listener |-> "idle"] /\ todo = [l \in Listener |-> {}]
  /\ file = [l \in Listener |-> None] /\ doc = [l \in Listener |-> None]
  /\ verdict = [l \in Listener |-> None]

-----------------------------------------------------------------------------
(* Producers and the clock.  A producer may take any name, one whose file  *)
(* has not been read or is in a listener's hands included; a rename puts   *)
(* another file in its place, opening it for writing empties it.           *)
Submit(n, e) ==
  /\ inbox' = [inbox EXCEPT ![n] = e]
  /\ submitted' = submitted \cup {e}
  /\ UNCHANGED <<now, faulty, writing, database, local>>

Open(n, e) ==
  /\ writing[n] = None
  /\ inbox' = [inbox EXCEPT ![n] = Fragment]
  /\ writing' = [writing EXCEPT ![n] = e]
  /\ submitted' = submitted \cup {Fragment}
  /\ UNCHANGED <<now, faulty, database, local>>

(* A file that was unlinked or replaced meanwhile is written all the same, *)
(* to nobody.                                                              *)
Finish(n) ==
  /\ writing[n] # None
  /\ inbox' = [inbox EXCEPT ![n] = IF @ = Fragment THEN writing[n] ELSE @]
  /\ submitted' = submitted \cup {writing[n]}
  /\ writing' = [writing EXCEPT ![n] = None]
  /\ UNCHANGED <<now, faulty, database, local>>

SetClock(t) ==
  /\ now' = t
  /\ UNCHANGED <<faulty, inbox, producer, database, local>>

(* From some time on nothing fails any more. *)
Recover ==
  /\ faulty /\ faulty' = FALSE
  /\ UNCHANGED <<now, inbox, producer, database, local>>

-----------------------------------------------------------------------------
(* process_file is over for this file, by return or by exception; the loop *)
(* of watch_inbox goes on with the next name.                              *)
FileDone(l) ==
  /\ pc' = [pc EXCEPT ![l] = IF todo'[l] = {} THEN "idle" ELSE "next"]
  /\ file' = [file EXCEPT ![l] = None]
  /\ doc' = [doc EXCEPT ![l] = None]
  /\ verdict' = [verdict EXCEPT ![l] = None]

GoTo(l, place) == pc' = [pc EXCEPT ![l] = place]

Poll(l) ==
  /\ pc[l] = "idle"
  /\ \E n \in Name : inbox[n] # None
  /\ todo' = [todo EXCEPT ![l] = {n \in Name : inbox[n] # None}]
  /\ GoTo(l, "next")
  /\ UNCHANGED <<now, faulty, inbox, producer, database, file, doc, verdict>>

(* What makes process_file raise, on every poll: bytes json.loads cannot   *)
(* decode; a lone surrogate, which the canonical document cannot encode; a *)
(* signature that is not ASCII, which compare_digest refuses.              *)
Readable(e) == e # None /\ Kind[e] # "undecodable"
Encodable(e) == Kind[e] # "unencodable"
Comparable(e) == Kind[e] # "oddSignature"

Read(l) ==
  /\ pc[l] = "next"
  /\ \E n \in todo[l] :
       /\ \A k \in todo[l] : n <= k
       /\ todo' = [todo EXCEPT ![l] = @ \ {n}]
       /\ \/ /\ Readable(inbox[n])
             /\ file' = [file EXCEPT ![l] = n]
             /\ doc' = [doc EXCEPT ![l] = inbox[n]]
             /\ GoTo(l, "check")
             /\ UNCHANGED verdict
          \/ ~ Readable(inbox[n]) /\ FileDone(l)
          \/ faulty /\ FileDone(l)
  /\ UNCHANGED <<now, faulty, inbox, producer, database>>

(* Variant: the audit table is not consulted. *)
RecordedNever(e) == FALSE

(* _already_recorded. *)
Recorded(e) == audit[e] > 0

(* Variant: a duplicate is left where it is. *)
CheckKeepsDuplicate(l) ==
  /\ pc[l] = "check"
  /\ UNCHANGED <<now, faulty, inbox, producer, database, todo>>
  /\ \/ /\ Encodable(doc[l]) /\ ~ Recorded(doc[l])
        /\ GoTo(l, "judge") /\ UNCHANGED <<file, doc, verdict>>
     \/ (~ Encodable(doc[l]) \/ Recorded(doc[l]) \/ faulty) /\ FileDone(l)

Check(l) ==
  /\ pc[l] = "check"
  /\ UNCHANGED <<now, faulty, inbox, producer, database, todo>>
  /\ \/ /\ Encodable(doc[l])
        /\ GoTo(l, IF Recorded(doc[l]) THEN "unlink" ELSE "judge")
        /\ UNCHANGED <<file, doc, verdict>>
     \/ (~ Encodable(doc[l]) \/ faulty) /\ FileDone(l)

InWindow(e) == now - Stamp[e] <= MaxAge /\ Stamp[e] - now <= MaxAhead

(* safesignal_check, validate_payload and the confidence threshold. *)
Route(e) ==
  IF Kind[e] \notin {"risky", "plain"} \/ ~ InWindow(e) THEN "quarantine"
  ELSE IF Kind[e] = "risky" THEN "hitl" ELSE "ledger"

Judge(l) ==
  /\ pc[l] = "judge"
  /\ UNCHANGED <<now, faulty, inbox, producer, database, todo>>
  /\ \/ /\ Comparable(doc[l])
        /\ verdict' = [verdict EXCEPT ![l] = Route(doc[l])]
        /\ GoTo(l, "record")
        /\ UNCHANGED <<file, doc>>
     \/ ~ Comparable(doc[l]) /\ FileDone(l)

(* The event tables have UNIQUE(event_id), the audit table has not. *)
Insert(l) ==
  /\ rows' = [rows EXCEPT ![verdict[l]][doc[l]] = @ + 1]
  /\ audit' = [audit EXCEPT ![doc[l]] = @ + 1]
  /\ GoTo(l, "unlink")
  /\ UNCHANGED <<file, doc, verdict>>

(* Variant: the file goes although the transaction failed. *)
RecordOrDrop(l) ==
  /\ pc[l] = "record"
  /\ \/ rows[verdict[l]][doc[l]] = 0 /\ Insert(l)
     \/ /\ rows[verdict[l]][doc[l]] > 0 \/ faulty
        /\ GoTo(l, "unlink") /\ UNCHANGED <<database, file, doc, verdict>>
  /\ UNCHANGED <<now, faulty, inbox, producer, todo>>

(* Variant: the event tables do not insist on unique events. *)
RecordTwice(l) ==
  /\ pc[l] = "record"
  /\ UNCHANGED <<now, faulty, inbox, producer, todo>>
  /\ Insert(l) \/ (faulty /\ UNCHANGED database /\ FileDone(l))

(* One transaction: both rows or neither. *)
Record(l) ==
  /\ pc[l] = "record"
  /\ UNCHANGED <<now, faulty, inbox, producer, todo>>
  /\ \/ rows[verdict[l]][doc[l]] = 0 /\ Insert(l)
     \/ /\ rows[verdict[l]][doc[l]] > 0 \/ faulty
        /\ UNCHANGED database /\ FileDone(l)

(* The unlink removes whatever has the name by now. *)
Unlink(l) ==
  /\ pc[l] = "unlink"
  /\ UNCHANGED <<now, faulty, producer, database, todo>>
  /\ \/ inbox' = [inbox EXCEPT ![file[l]] = None]
     \/ faulty /\ UNCHANGED inbox
  /\ FileDone(l)

(* The container dies and is started again; the files and tables remain.   *)
Crash(l) ==
  /\ faulty /\ pc[l] # "idle"
  /\ todo' = [todo EXCEPT ![l] = {}]
  /\ FileDone(l)
  /\ UNCHANGED <<now, faulty, inbox, producer, database>>

ListenerStep(l) ==
  Poll(l) \/ Read(l) \/ Check(l) \/ Judge(l) \/ Record(l) \/ Unlink(l)

Next ==
  \/ \E l \in Listener : ListenerStep(l) \/ Crash(l)
  \/ \E n \in Name :
       \/ \E e \in Event \ (InPlace \cup {Fragment}) : Submit(n, e)
       \/ \E e \in InPlace : Open(n, e)
       \/ Finish(n)
  \/ \E t \in 0 .. MaxTime : SetClock(t)
  \/ Recover

Spec == Init /\ [][Next]_vars

(* The listener's process is scheduled and producers finish their files.   *)
FairSpec ==
  /\ Spec
  /\ \A l \in Listener : WF_vars(ListenerStep(l))
  /\ \A n \in Name : WF_vars(Finish(n))

-----------------------------------------------------------------------------
Documents == Event \cup {None}

TypeOK ==
  /\ now \in 0 .. MaxTime /\ faulty \in BOOLEAN
  /\ inbox \in [Name -> Documents] /\ writing \in [Name -> Documents]
  /\ submitted \subseteq Event
  /\ rows \in [Table -> [Event -> Nat]] /\ audit \in [Event -> Nat]
  /\ pc \in [Listener -> {"idle", "next", "check", "judge", "record", "unlink"}]
  /\ todo \in [Listener -> SUBSET Name]
  /\ file \in [Listener -> Name \cup {None}] /\ doc \in [Listener -> Documents]
  /\ verdict \in [Listener -> Table \cup {None}]
  /\ \A l \in Listener :
       /\ pc[l] = "next" => todo[l] # {}
       /\ pc[l] \in {"check", "judge", "record", "unlink"} =>
            file[l] \in Name /\ doc[l] \in Event
       /\ pc[l] = "record" => verdict[l] \in Table

(* An event has at most one row in all tables together, however often it   *)
(* is offered, wherever the listener died and whatever the clock did: an   *)
(* event refused for its age is not accepted when the clock goes back.     *)
OneOutcome ==
  \A e \in Event :
    /\ \A t \in Table : rows[t][e] <= 1
    /\ \A t, u \in Table : rows[t][e] > 0 /\ rows[u][e] > 0 => t = u

(* "keep it if durable recording fails", "Remove only after the database   *)
(* transaction has committed" (process_file): no listener takes the last   *)
(* unrecorded copy of a document out of the inbox, whatever fails and      *)
(* however often it is retried, except a file that took its name while the *)
(* listener had the one before in its hands.                               *)
Kept(e) == audit[e] > 0 \/ \E n \in Name : inbox[n] = e

Displaced(e) == \E n \in Name : inbox[n] = e /\ inbox'[n] \notin {e, None}
Overtook(e) ==
  \E l \in Listener : pc[l] = "unlink" /\ inbox[file[l]] = e /\ doc[l] # e

EventIsKept ==
  [][\A e \in Event : Kept(e) /\ ~ Kept(e)' => Displaced(e) \/ Overtook(e)]_vars

(* The two sentences without the exception: only a producer may take the   *)
(* last copy of an unrecorded document away, by replacing it.              *)
MovedInIsKept ==
  [][\A e \in Event \ InPlace : Kept(e) /\ ~ Kept(e)' => Displaced(e)]_vars

(* docs/LISTENER-QUICKSTART.md writes the event into the inbox itself and  *)
(* promises that it will be recorded: its file is not removed while it is  *)
(* being written.                                                          *)
WrittenIsKept ==
  [][\A n \in Name :
       writing[n] # None /\ inbox[n] = Fragment => inbox'[n] # None]_vars

(* Two listeners on one inbox that overlap, as when one is started before  *)
(* the other has ended, never act on an event twice: it is accepted into   *)
(* the ledger or queued for a human, once.                                 *)
OneAcceptance ==
  \A e \in Event : rows["ledger"][e] + rows["hitl"][e] <= 1

(* Once nothing fails any more, no document that process_file can answer   *)
(* stays in the inbox, also when others make it raise on every poll: it is *)
(* removed, once it is recorded or as EventIsKept says.                    *)
Answerable(e) == Readable(e) /\ Encodable(e) /\ Comparable(e)

InboxDrains ==
  <>[](~ faulty) =>
    \A n \in Name : \A e \in Event :
      inbox[n] = e /\ Answerable(e) ~> inbox[n] # e

(* docs/LISTENER-QUICKSTART.md, under "Test quarantine": "Drop a file with *)
(* an invalid signature or malformed JSON"; tests/test_listener.py: "A     *)
(* non-JSON file must be quarantined."  At least, it does not stay.        *)
InvalidIsQuarantined ==
  \A n \in Name : \A e \in Event :
    Kind[e] \in {"unparsable", "undecodable", "oddSignature"} =>
      (inbox[n] = e ~> (rows["quarantine"][e] > 0 \/ inbox[n] # e))

(* A single listener implements EventIntake.                               *)
MayGet(e) ==
  {"quarantine"} \cup (IF Kind[e] = "plain" THEN {"ledger"} ELSE {})
                 \cup (IF Kind[e] = "risky" THEN {"hitl"} ELSE {})

OutcomeOf(e) ==
  IF \E t \in Table : rows[t][e] > 0 THEN CHOOSE t \in Table : rows[t][e] > 0
  ELSE None

Promise == INSTANCE EventIntake WITH
  Outcome <- Table, Deserves <- [e \in Event |-> MayGet(e)], Pending <- None,
  offered <- submitted, outcome <- [e \in Event |-> OutcomeOf(e)]

ImplementsEventIntake == Promise!Spec
=============================================================================
