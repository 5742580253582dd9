-------------------------- MODULE ProofStoreProofs --------------------------
(***************************************************************************)
(* Safety of ProofStore for any requests, writers and readers, with or     *)
(* without I/O failures.                                                   *)
(*                                                                         *)
(* Crash safety rests on what a writer knows while it is inside the lock:  *)
(* it is alone there (Exclusive), so the temporary file it is about to     *)
(* rename is a complete copy of memory (TmpIsCopy), and the one record it  *)
(* may have left half-mutated is complete again before that copy is made   *)
(* (MemoryComplete).  What a client may be told rests on what it has       *)
(* already read: statuses only move forward under it (Told).               *)
(***************************************************************************)
EXTENDS ProofStore, Naturals, TLAPS

Inside(t) == pc[t] # "idle"

Exclusive ==
  \A t \in Writer : Inside(t) => up /\ lock = t /\ req[t] \in Request

Reading ==
  \A t \in Reader : get[t].at # "idle" => get[t].req \in Request

TmpIsCopy ==
  \A t \in Writer : pc[t] = "replace" => tmp.kind = "whole" /\ tmp.data = records

\* The record is not the one some writer has just given a status.
Complete(r) == FieldsOf(records[r].status) \subseteq records[r].fields

MemoryComplete ==
  \A r \in Request :
    Complete(r) \/ \E t \in Writer : pc[t] = "fill" /\ req[t] = r

\* Memory never falls behind the file.
DurableNotAhead ==
  up => \A r \in Request : Advances(Durable(r), records[r].status)

\* What a client was last told, what it has read since and what it will read
\* follow each other; once it has the code 200 it will read a terminal status.
ToldReader(t) ==
  LET g == get[t] IN
  /\ g.req = None => g.at = "idle" /\ answer[t].status = Absent
  /\ g.req # None => up
  /\ g.at # "idle" => records[g.req].status # Absent
  /\ g.req # None /\ g.at # "fields" =>
       Advances(answer[t].status, records[g.req].status)
  /\ g.at = "fields" =>
       Advances(answer[t].status, g.status) /\ Advances(g.status, records[g.req].status)
  /\ g.at = "status" /\ g.code = 200 => records[g.req].status \in Terminal
  /\ g.at = "fields" /\ g.code = 200 => g.status \in Terminal

Told == \A t \in Reader : ToldReader(t)

\* The inductive invariant.
IInv ==
  /\ TypeOK
  /\ Exclusive
  /\ Reading
  /\ TmpIsCopy
  /\ MemoryComplete
  /\ StoreNeverTorn
  /\ DurableComplete
  /\ DurableNotAhead
  /\ Told
  /\ OkMeansTerminal

-----------------------------------------------------------------------------
(* Facts about statuses.                                                   *)

\* The transition table of _ALLOWED_TRANSITIONS stays within what may come later.
LEMMA TransitionAdvances ==
  ASSUME NEW a \in Status \cup {Absent}, NEW b \in Status,
         CheckTransition(a, b)
  PROVE  Advances(a, b)
BY DEF CheckTransition, AllowedTransitions, Advances, Status, Absent, InitialStatus

\* Advancing twice is advancing.
LEMMA AdvancesTransitive ==
  ASSUME NEW a \in Status \cup {Absent}, NEW b \in Status \cup {Absent},
         NEW c \in Status \cup {Absent}, Advances(a, b), Advances(b, c)
  PROVE  Advances(a, c)
BY DEF Advances, Status, Absent

\* What a status calls for is a set of fields.
LEMMA FieldsOfType == \A s \in Status \cup {Absent} : FieldsOf(s) \subseteq Field
BY DEF FieldsOf

-----------------------------------------------------------------------------
(* Type correctness, one lemma per group of actions.                       *)

\* The initial state satisfies the invariant: nothing is stored or running.
LEMMA InitInv == Init => IInv
<1> SUFFICES ASSUME Init PROVE IInv
  OBVIOUS
<1>1. Unknown \in Record /\ Empty \in Records /\ NoFile \in File
  BY DEF Unknown, Record, Empty, Records, NoFile, File
<1>2. NotFound \in Reply /\ NotReading \in Polling
  BY DEF NotFound, Reply, Code, NotReading, Polling
<1>3. TypeOK
  BY <1>1, <1>2 DEF Init, TypeOK
<1>4. \A r \in Request : FieldsOf(Empty[r].status) = {}
  BY DEF FieldsOf, Empty, Unknown, Absent, Terminal, Status
<1>5. Exclusive /\ Reading /\ TmpIsCopy /\ MemoryComplete
  BY <1>4 DEF Init, Exclusive, Inside, Reading, TmpIsCopy, MemoryComplete, Complete, NotReading
<1>6. StoreNeverTorn /\ DurableComplete /\ DurableNotAhead
  BY <1>4 DEF Init, StoreNeverTorn, DurableComplete, DurableNotAhead, Durable, NoFile, Advances
<1>7. Told /\ OkMeansTerminal
  BY DEF Init, Told, ToldReader, OkMeansTerminal, NotReading, NotFound
<1> QED
  BY <1>3, <1>5, <1>6, <1>7 DEF IInv

\* The steps of get_proof keep a reader's place well formed.
LEMMA PollingMoves ==
  ASSUME NEW g \in Polling
  PROVE  /\ \A r \in Request : [g EXCEPT !.at = "code", !.req = r] \in Polling
         /\ \A c \in Code : [g EXCEPT !.at = "status", !.code = c] \in Polling
         /\ \A s \in Status \cup {Absent} :
              [g EXCEPT !.at = "fields", !.status = s] \in Polling
        /\ \A r \in Request : [g EXCEPT !.req = r] \in Polling
<1>1. ASSUME NEW r \in Request PROVE [g EXCEPT !.at = "code", !.req = r] \in Polling
  BY DEF Polling
<1>2. ASSUME NEW c \in Code PROVE [g EXCEPT !.at = "status", !.code = c] \in Polling
  BY DEF Polling
<1>3. ASSUME NEW s \in Status \cup {Absent}
      PROVE  [g EXCEPT !.at = "fields", !.status = s] \in Polling
  BY DEF Polling
<1>4. ASSUME NEW r \in Request PROVE [g EXCEPT !.req = r] \in Polling
  BY DEF Polling
<1> QED
  BY <1>1, <1>2, <1>3, <1>4, Zenon

\* Every step keeps every variable in its set.
LEMMA TypeStep == IInv /\ [Next]_vars => TypeOK'
<1> SUFFICES ASSUME IInv, [Next]_vars PROVE TypeOK'
  OBVIOUS
<1> USE ConstantAssumption DEF IInv, TypeOK
<1>1. /\ Unknown \in Record /\ Empty \in Records /\ NoFile \in File
      /\ NotFound \in Reply /\ NotReading \in Polling
  BY DEF Unknown, Record, Empty, Records, NoFile, File, NotFound, Reply, Code, NotReading, Polling
<1>2. ASSUME NEW t \in Writer, NEW r \in Request, NEW s \in Status, Assign(t, r, s)
      PROVE  TypeOK'
  <2>1. records' \in Records
    BY <1>2 DEF Assign, Records, Record
  <2> QED
    BY <1>2, <2>1 DEF Assign, Enter, readerVars
<1>3. ASSUME NEW t \in Writer, Fill(t) PROVE TypeOK'
  <2>1. req[t] \in Request
    BY <1>3 DEF Fill, Goto, Exclusive, Inside
  <2>2. FieldsOf(records[req[t]].status) \subseteq Field
    BY DEF FieldsOf
  <2>3. records' \in Records
    BY <1>3, <2>1, <2>2 DEF Fill, Records, Record
  <2> QED
    BY <1>3, <2>3 DEF Fill, Goto, readerVars
<1>4. ASSUME NEW t \in Writer, NEW r \in Request, Annotate(t, r) PROVE TypeOK'
  BY <1>4 DEF Annotate, Enter, readerVars
<1>5. ASSUME NEW t \in Writer, OpenTmp(t) PROVE TypeOK'
  BY <1>1, <1>5 DEF OpenTmp, Goto, readerVars, File
<1>6. ASSUME NEW t \in Writer, Dump(t) PROVE TypeOK'
  BY <1>6 DEF Dump, Goto, readerVars, File
<1>7. ASSUME NEW t \in Writer, Replace(t) PROVE TypeOK'
  BY <1>1, <1>7 DEF Replace, Leave, readerVars
<1>8. ASSUME NEW t \in Writer, PersistFails(t) PROVE TypeOK'
  BY <1>8 DEF PersistFails, Leave, readerVars
<1>9. ASSUME NEW t \in Reader, NEW r \in Request, GetUnknown(t, r) PROVE TypeOK'
  <2>1. get[t] \in Polling
    OBVIOUS
  <2>2. [get[t] EXCEPT !.req = r] \in Polling
    BY <2>1, PollingMoves, Zenon
  <2> QED
    BY <1>1, <1>9, <2>2 DEF GetUnknown, Lookup, writerVars
<1>10. ASSUME NEW t \in Reader, NEW r \in Request, GetRecord(t, r) PROVE TypeOK'
  <2>1. get[t] \in Polling
    OBVIOUS
  <2>2. [get[t] EXCEPT !.at = "code", !.req = r] \in Polling
    BY <2>1, PollingMoves, Zenon
  <2> QED
    BY <1>10, <2>2 DEF GetRecord, writerVars
<1>11. ASSUME NEW t \in Reader, ReadCode(t) PROVE TypeOK'
  <2>1. get[t] \in Polling
    OBVIOUS
  <2>2. \A c \in Code : [get[t] EXCEPT !.at = "status", !.code = c] \in Polling
    BY <2>1, PollingMoves, Zenon
  <2> QED
    BY <1>11, <2>2 DEF ReadCode, writerVars, Code
<1>12. ASSUME NEW t \in Reader, ReadStatus(t) PROVE TypeOK'
  <2>1. get[t].req \in Request
    BY <1>12 DEF ReadStatus, Reading
  <2>2. records[get[t].req].status \in Status \cup {Absent}
    BY <2>1 DEF Records, Record
  <2>3. [get[t] EXCEPT !.at = "fields", !.status = records[get[t].req].status] \in Polling
    BY <2>2, PollingMoves
  <2> QED
    BY <1>12, <2>3 DEF ReadStatus, writerVars
<1>13. ASSUME NEW t \in Reader, ReadFields(t) PROVE TypeOK'
  <2>1. get[t].req \in Request
    BY <1>13 DEF ReadFields, Reading
  <2>2. records[get[t].req].fields \in SUBSET Field
    BY <2>1 DEF Records, Record
  <2>3. [code |-> get[t].code, status |-> get[t].status,
         fields |-> records[get[t].req].fields] \in Reply
    BY <2>2 DEF Reply, Polling
  <2>4. [NotReading EXCEPT !.req = get[t].req] \in Polling
    BY <1>1, <2>1, PollingMoves
  <2> QED
    BY <1>1, <1>13, <2>3, <2>4 DEF ReadFields, writerVars
<1>14. CASE Crash
  BY <1>1, <1>14 DEF Crash
<1>15. CASE Restart
  BY <1>15 DEF Restart, readerVars, File
<1>16. CASE UNCHANGED vars
  BY <1>16 DEF vars
<1> QED
  BY <1>2, <1>3, <1>4, <1>5, <1>6, <1>7, <1>8, <1>9, <1>10, <1>11, <1>12, <1>13,
     <1>14, <1>15, <1>16
  DEF Next, WriterStep, ReaderStep, SetStatus, SetTerminal

-----------------------------------------------------------------------------
(* The other conjuncts of the invariant.                                   *)

\* The lock is exclusive: only its holder is inside, and only one thread is.
LEMMA ExclusiveStep == IInv /\ [Next]_vars => Exclusive' /\ Reading'
<1> SUFFICES ASSUME IInv, [Next]_vars PROVE Exclusive' /\ Reading'
  OBVIOUS
<1> USE ConstantAssumption DEF IInv, TypeOK, Exclusive, Reading, Inside
<1>1. ASSUME NEW t \in Writer, WriterStep(t) PROVE Exclusive' /\ Reading'
  BY <1>1 DEF WriterStep, SetStatus, SetTerminal, Assign, Annotate, Fill, OpenTmp, Dump,
              Replace, PersistFails, Enter, Leave, Goto, readerVars
<1>2. ASSUME NEW t \in Reader, ReaderStep(t) PROVE Exclusive' /\ Reading'
  <2>1. Exclusive'
    BY <1>2 DEF ReaderStep, GetUnknown, GetRecord, ReadCode, ReadStatus, ReadFields, writerVars
  <2>2. \A u \in Reader : u # t => get'[u] = get[u]
    BY <1>2 DEF ReaderStep, GetUnknown, GetRecord, ReadCode, ReadStatus, ReadFields
  <2>3. get[t] \in Polling
    OBVIOUS
  <2>4. get'[t].at # "idle" => get'[t].req \in Request
    <3>1. ASSUME NEW r \in Request, GetRecord(t, r) PROVE get'[t].req \in Request
      BY <2>3, <3>1 DEF GetRecord, Polling
    <3>2. CASE ReadCode(t)
      BY <2>3, <3>2 DEF ReadCode, Polling
    <3>3. CASE ReadStatus(t)
      BY <2>3, <3>3 DEF ReadStatus, Polling
    <3>4. CASE ReadFields(t)
      BY <3>4 DEF ReadFields, NotReading
    <3>5. ASSUME NEW r \in Request, GetUnknown(t, r) PROVE get'[t].req \in Request
      BY <2>3, <3>5 DEF GetUnknown, Polling
    <3> QED
      BY <1>2, <3>1, <3>2, <3>3, <3>4, <3>5 DEF ReaderStep
  <2> QED
    BY <2>1, <2>2, <2>4
<1>3. CASE Crash
  BY <1>3 DEF Crash, NotReading
<1>4. CASE Restart
  BY <1>4 DEF Restart, readerVars
<1>5. CASE UNCHANGED vars
  BY <1>5 DEF vars
<1> QED
  BY <1>1, <1>2, <1>3, <1>4, <1>5 DEF Next

\* What is about to be renamed is a complete copy of memory: nobody else
\* changes the records or the temporary file while a writer is inside.
LEMMA TmpIsCopyStep == IInv /\ [Next]_vars => TmpIsCopy'
<1> SUFFICES ASSUME IInv, [Next]_vars PROVE TmpIsCopy'
  OBVIOUS
<1> USE ConstantAssumption DEF IInv, TypeOK, Exclusive, Inside, TmpIsCopy
<1>1. ASSUME NEW t \in Writer, WriterStep(t) PROVE TmpIsCopy'
  BY <1>1 DEF WriterStep, SetStatus, SetTerminal, Assign, Annotate, Fill, OpenTmp, Dump,
              Replace, PersistFails, Enter, Leave, Goto
<1>2. ASSUME NEW t \in Reader, ReaderStep(t) PROVE TmpIsCopy'
  BY <1>2 DEF ReaderStep, GetUnknown, GetRecord, ReadCode, ReadStatus, ReadFields, writerVars
<1>3. CASE Crash
  BY <1>3 DEF Crash
<1>4. CASE Restart
  BY <1>4 DEF Restart
<1>5. CASE UNCHANGED vars
  BY <1>5 DEF vars
<1> QED
  BY <1>1, <1>2, <1>3, <1>4, <1>5 DEF Next

\* Memory is complete except for the record a writer is filling in.
LEMMA MemoryCompleteStep == IInv /\ [Next]_vars => MemoryComplete'
<1> SUFFICES ASSUME IInv, [Next]_vars PROVE MemoryComplete'
  OBVIOUS
<1> USE ConstantAssumption DEF IInv, TypeOK, Exclusive, Inside, MemoryComplete, Complete
<1>1. ASSUME NEW t \in Writer, NEW r \in Request, NEW s \in Status, Assign(t, r, s)
      PROVE  MemoryComplete'
  <2>1. pc'[t] = "fill" /\ req'[t] = r
    BY <1>1 DEF Assign, Enter
  <2>2. \A q \in Request : q # r => records'[q] = records[q]
    BY <1>1 DEF Assign, Records
  <2>3. \A u \in Writer : pc[u] = "idle"
    BY <1>1 DEF Assign, Enter
  <2> QED
    BY <2>1, <2>2, <2>3
<1>2. ASSUME NEW t \in Writer, Fill(t) PROVE MemoryComplete'
  <2>1. req[t] \in Request /\ lock = t
    BY <1>2 DEF Fill, Goto
  <2>2. \A q \in Request : q # req[t] => records'[q] = records[q]
    BY <1>2 DEF Fill, Records
  <2>3. /\ records'[req[t]].status = records[req[t]].status
        /\ records'[req[t]].fields =
             records[req[t]].fields \cup FieldsOf(records[req[t]].status)
    BY <1>2, <2>1 DEF Fill, Records, Record
  <2>4. \A u \in Writer : pc[u] = "fill" => u = t
    BY <2>1
  <2>5. \A q \in Request : q # req[t] => Complete(q)
    BY <2>4
  <2> QED
    BY <2>2, <2>3, <2>5
<1>3. ASSUME NEW t \in Writer, NEW r \in Request, Annotate(t, r) PROVE MemoryComplete'
  BY <1>3 DEF Annotate, Enter
<1>4. ASSUME NEW t \in Writer, OpenTmp(t) \/ Dump(t) \/ Replace(t) \/ PersistFails(t)
      PROVE  MemoryComplete'
  BY <1>4 DEF OpenTmp, Dump, Replace, PersistFails, Goto, Leave
<1>5. ASSUME NEW t \in Reader, ReaderStep(t) PROVE MemoryComplete'
  BY <1>5 DEF ReaderStep, GetUnknown, GetRecord, ReadCode, ReadStatus, ReadFields, writerVars
<1>6. CASE Crash
  BY <1>6 DEF Crash, Empty, Unknown, FieldsOf, Absent, Terminal, Status
<1>7. CASE Restart
  BY <1>7 DEF Restart, DurableComplete, Durable
<1>8. CASE UNCHANGED vars
  BY <1>8 DEF vars
<1> QED
  BY <1>1, <1>2, <1>3, <1>4, <1>5, <1>6, <1>7, <1>8
  DEF Next, WriterStep, SetStatus, SetTerminal

\* Only a rename changes the store, and it publishes a complete copy of memory.
LEMMA StoreStep ==
  IInv /\ [Next]_vars =>
    \/ store' = store
    \/ store'.kind = "whole" /\ store'.data = records /\ records' = records /\ up
       /\ \A r \in Request : Complete(r)
<1> SUFFICES ASSUME IInv, [Next]_vars, store' # store
             PROVE  /\ store'.kind = "whole" /\ store'.data = records
                    /\ records' = records /\ up
                    /\ \A r \in Request : Complete(r)
  OBVIOUS
<1>1. PICK t \in Writer : Replace(t)
  BY DEF Next, vars, WriterStep, ReaderStep, SetStatus, SetTerminal, Assign, Fill, Annotate,
         OpenTmp, Dump, PersistFails, GetUnknown, GetRecord, ReadCode, ReadStatus, ReadFields,
         Goto, Crash, Restart
<1>2. pc[t] = "replace" /\ store' = tmp /\ records' = records
  BY <1>1 DEF Replace
<1>3. up /\ lock = t
  BY <1>2 DEF IInv, Exclusive, Inside
<1>4. \A u \in Writer : pc[u] # "fill"
  BY <1>2, <1>3 DEF IInv, Exclusive, Inside
<1> QED
  BY <1>2, <1>3, <1>4 DEF IInv, TmpIsCopy, MemoryComplete

\* The file stays parsable and its records complete.
LEMMA DurableCompleteStep == IInv /\ [Next]_vars => StoreNeverTorn' /\ DurableComplete'
BY StoreStep DEF IInv, StoreNeverTorn, DurableComplete, Durable, Complete

\* Memory moves forward, or is replaced by the file; the file catches up.
LEMMA DurableNotAheadStep == IInv /\ [Next]_vars => DurableNotAhead'
<1> SUFFICES ASSUME IInv, [Next]_vars PROVE DurableNotAhead'
  OBVIOUS
<1> USE DEF IInv, TypeOK, DurableNotAhead, Durable
<1>1. CASE store' # store
  BY <1>1, StoreStep DEF Advances
<1>2. CASE store' = store
  <2>1. ASSUME NEW t \in Writer, NEW r \in Request, NEW s \in Status, Assign(t, r, s)
        PROVE  DurableNotAhead'
    <3>1. \A q \in Request : q # r => records'[q] = records[q]
      BY <2>1 DEF Assign, Records
    <3>2. records'[r].status = s /\ CheckTransition(records[r].status, s)
      BY <2>1 DEF Assign, Records, Record
    <3>3. records[r].status \in Status \cup {Absent}
          /\ store.data[r].status \in Status \cup {Absent}
      BY DEF Records, Record, File
    <3>4. up /\ up'
      BY <2>1 DEF Assign, Enter
    <3>5. Advances(store.data[r].status, records[r].status)
      BY <3>4
    <3>6. Advances(store.data[r].status, s)
      BY <3>2, <3>3, <3>5, TransitionAdvances, AdvancesTransitive
    <3> QED
      BY <1>2, <3>1, <3>2, <3>4, <3>6
  <2>2. ASSUME NEW t \in Writer, Fill(t) PROVE DurableNotAhead'
    <3>1. \A q \in Request : records'[q].status = records[q].status
      BY <2>2 DEF Fill, Records, Record
    <3> QED
      BY <1>2, <2>2, <3>1 DEF Fill, Goto
  <2>3. ASSUME NEW t \in Writer,
               \/ \E r \in Request : Annotate(t, r)
               \/ OpenTmp(t) \/ Dump(t) \/ Replace(t) \/ PersistFails(t)
        PROVE  DurableNotAhead'
    BY <1>2, <2>3 DEF Annotate, OpenTmp, Dump, Replace, PersistFails, Goto
  <2>4. ASSUME NEW t \in Reader, ReaderStep(t) PROVE DurableNotAhead'
    BY <1>2, <2>4
    DEF ReaderStep, GetUnknown, GetRecord, ReadCode, ReadStatus, ReadFields, writerVars
  <2>5. CASE Crash
    BY <2>5 DEF Crash
  <2>6. CASE Restart
    BY <1>2, <2>6 DEF Restart, Advances
  <2>7. CASE UNCHANGED vars
    BY <2>7 DEF vars
  <2> QED
    BY <2>1, <2>2, <2>3, <2>4, <2>5, <2>6, <2>7
    DEF Next, WriterStep, SetStatus, SetTerminal
<1> QED
  BY <1>1, <1>2

-----------------------------------------------------------------------------
(* What a client is told.                                                  *)

\* While the process runs, the status of a record only moves forward, and a
\* terminal status stays terminal.
LEMMA RecordsAdvance ==
  ASSUME TypeOK, Exclusive, [Next]_vars, up, up'
  PROVE  \A r \in Request :
           /\ Advances(records[r].status, records'[r].status)
           /\ records[r].status \in Terminal => records'[r].status \in Terminal
<1>1. CASE records' = records
  BY <1>1 DEF Advances
<1>2. ASSUME NEW t \in Writer, NEW r \in Request, NEW s \in Status, Assign(t, r, s)
      PROVE  \A q \in Request :
               /\ Advances(records[q].status, records'[q].status)
               /\ records[q].status \in Terminal => records'[q].status \in Terminal
  <2>1. \A q \in Request : q # r => records'[q] = records[q]
    BY <1>2 DEF Assign, TypeOK, Records
  <2>2. records'[r].status = s /\ CheckTransition(records[r].status, s)
    BY <1>2 DEF Assign, TypeOK, Records, Record
  <2>3. records[r].status \in Status \cup {Absent}
    BY DEF TypeOK, Records, Record
  <2>4. Advances(records[r].status, s)
    BY <2>2, <2>3, TransitionAdvances
  <2>5. records[r].status \in Terminal => s \in Terminal
    BY <2>2, <2>3 DEF CheckTransition, AllowedTransitions, Terminal, Active, Status, Absent
  <2> QED
    BY <2>1, <2>2, <2>4, <2>5 DEF Advances
<1>3. ASSUME NEW t \in Writer, Fill(t)
      PROVE  \A r \in Request : records'[r].status = records[r].status
  BY <1>3 DEF Fill, TypeOK, Records, Record
<1>4. CASE Crash \/ Restart
  BY <1>4 DEF Crash, Restart
<1>5. ASSUME NEW t \in Reader, ReaderStep(t) PROVE records' = records
  BY <1>5 DEF ReaderStep, GetUnknown, GetRecord, ReadCode, ReadStatus, ReadFields, writerVars
<1>6. ASSUME NEW t \in Writer,
             \/ \E r \in Request : Annotate(t, r)
             \/ OpenTmp(t) \/ Dump(t) \/ Replace(t) \/ PersistFails(t)
      PROVE  records' = records
  BY <1>6 DEF Annotate, OpenTmp, Dump, Replace, PersistFails
<1>7. CASE UNCHANGED vars
  BY <1>1, <1>7 DEF vars
<1> QED
  BY <1>1, <1>2, <1>3, <1>4, <1>5, <1>6, <1>7
  DEF Next, WriterStep, SetStatus, SetTerminal, Advances

\* A reader that takes no step keeps what it knows: its record moved forward.
LEMMA ToldUnmoved ==
  ASSUME IInv, [Next]_vars, up', NEW t \in Reader,
         get'[t] = get[t], answer'[t] = answer[t], get[t].req = None \/ up
  PROVE  ToldReader(t)'
<1>1. CASE get[t].req = None
  BY <1>1 DEF IInv, Told, ToldReader
<1>2. CASE get[t].req # None
  <2>0. TypeOK /\ Exclusive /\ ToldReader(t)
    BY DEF IInv, Told
  <2>1. up /\ get[t] \in Polling /\ get[t].req \in Request
    BY <1>2, <2>0 DEF TypeOK, Polling
  <2>2. /\ Advances(records[get[t].req].status, records'[get[t].req].status)
        /\ records[get[t].req].status \in Terminal => records'[get[t].req].status \in Terminal
    BY <2>0, <2>1, RecordsAdvance
  <2>3. /\ answer[t].status \in Status \cup {Absent}
        /\ get[t].status \in Status \cup {Absent}
        /\ records[get[t].req].status \in Status \cup {Absent}
    BY <2>0, <2>1 DEF TypeOK, Reply, Polling, Records, Record
  <2>4. records'[get[t].req].status \in Status \cup {Absent}
    BY <2>1, TypeStep DEF TypeOK, Records, Record
  <2>5. \A a \in Status \cup {Absent} :
          Advances(a, records[get[t].req].status) => Advances(a, records'[get[t].req].status)
    BY <2>2, <2>3, <2>4, AdvancesTransitive
  <2>6. records[get[t].req].status # Absent => records'[get[t].req].status # Absent
    BY <2>2, <2>3 DEF Advances, Status, Absent
  <2>7. answer[t]'.status = answer[t].status /\ get[t]' = get[t]
    OBVIOUS
  <2>8. records[get[t].req]' = records'[get[t].req]
    BY <2>7
  <2> QED
    BY <1>2, <2>0, <2>1, <2>2, <2>3, <2>5, <2>6, <2>7, <2>8 DEF ToldReader
<1> QED
  BY <1>1, <1>2

\* Every step keeps what the clients were told in order.
LEMMA ToldStep == IInv /\ [Next]_vars => Told'
<1> SUFFICES ASSUME IInv, [Next]_vars, NEW t \in Reader PROVE ToldReader(t)'
  BY DEF Told
<1>0. TypeOK /\ Reading /\ ToldReader(t) /\ get[t] \in Polling /\ answer[t] \in Reply
  BY DEF IInv, Told, TypeOK
<1>1. ASSUME NEW u \in Reader, ReaderStep(u), u # t PROVE ToldReader(t)'
  <2>1. get'[t] = get[t] /\ answer'[t] = answer[t] /\ up' = up
    BY <1>0, <1>1 DEF TypeOK, ReaderStep, GetUnknown, GetRecord, ReadCode, ReadStatus, ReadFields
  <2>2. up
    BY <1>0, <1>1 DEF IInv, Told, ToldReader, ReaderStep, GetUnknown, GetRecord, Lookup,
                      ReadCode, ReadStatus, ReadFields
  <2> QED
    BY <2>1, <2>2, ToldUnmoved
<1>2. ASSUME NEW r \in Request, GetUnknown(t, r) PROVE ToldReader(t)'
  BY <1>0, <1>2, ConstantAssumption
  DEF GetUnknown, Lookup, ToldReader, TypeOK, Polling, NotFound, Advances, writerVars
<1>3. ASSUME NEW r \in Request, GetRecord(t, r) PROVE ToldReader(t)'
  <2>1. /\ get'[t].at = "code" /\ get'[t].req = r
        /\ answer' = answer /\ records' = records /\ up /\ up' /\ get[t].req \in {None, r}
        /\ records[r].status # Absent
    BY <1>0, <1>3 DEF GetRecord, Lookup, TypeOK, Polling, writerVars
  <2>2. get[t].at = "idle"
    BY <1>3 DEF GetRecord, Lookup
  <2>3. records[r].status \in Status \cup {Absent}
    BY <1>0 DEF TypeOK, Records, Record
  <2> QED
    BY <1>0, <2>1, <2>2, <2>3, ConstantAssumption DEF ToldReader, Advances
<1>4. CASE ReadCode(t)
  <2> DEFINE code == IF records[get[t].req].status \in Active THEN 202 ELSE 200
  <2>1. /\ get[t].at = "code" /\ get[t].req \in Request
        /\ get'[t].at = "status" /\ get'[t].req = get[t].req /\ get'[t].code = code
        /\ answer' = answer /\ records' = records /\ up' = up
    BY <1>0, <1>4 DEF ReadCode, Reading, TypeOK, Polling, writerVars
  <2>2. records[get[t].req].status \in Status \cup {Absent}
    BY <1>0, <2>1 DEF TypeOK, Records, Record
  <2>3. records[get[t].req].status # Absent
    BY <1>0, <2>1 DEF ToldReader
  <2>4. code = 200 => records[get[t].req].status \in Terminal
    BY <2>2, <2>3 DEF Terminal
  <2> QED
    BY <1>0, <2>1, <2>4, ConstantAssumption DEF ToldReader
<1>5. CASE ReadStatus(t)
  <2>1. /\ get[t].at = "status" /\ get[t].req \in Request
        /\ get'[t].at = "fields" /\ get'[t].req = get[t].req /\ get'[t].code = get[t].code
        /\ get'[t].status = records[get[t].req].status
        /\ answer' = answer /\ records' = records /\ up' = up
    BY <1>0, <1>5 DEF ReadStatus, Reading, TypeOK, Polling, writerVars
  <2> QED
    BY <1>0, <2>1, ConstantAssumption DEF ToldReader, Advances
<1>6. CASE ReadFields(t)
  <2>1. /\ get[t].at = "fields" /\ get[t].req \in Request
        /\ get'[t].at = "idle" /\ get'[t].req = get[t].req
        /\ answer'[t].status = get[t].status
        /\ records' = records /\ up' = up
    BY <1>0, <1>6 DEF ReadFields, Reading, TypeOK, NotReading, writerVars
  <2> QED
    BY <1>0, <2>1, ConstantAssumption DEF ToldReader
<1>7. CASE Crash
  BY <1>7, ConstantAssumption DEF Crash, ToldReader, NotReading, NotFound
<1>8. CASE Restart
  <2>1. get[t].req = None /\ up' /\ get' = get /\ answer' = answer
    BY <1>0, <1>8 DEF Restart, ToldReader, readerVars
  <2> QED
    BY <2>1, ToldUnmoved
<1>9. ASSUME NEW w \in Writer, WriterStep(w) PROVE ToldReader(t)'
  <2>1. get' = get /\ answer' = answer /\ up' = up
    BY <1>9 DEF WriterStep, SetStatus, SetTerminal, Assign, Annotate, Enter, Fill, OpenTmp, Dump,
                Replace, PersistFails, Goto, readerVars
  <2>2. up
    BY <1>9 DEF IInv, Exclusive, Inside, WriterStep, SetStatus, SetTerminal, Assign, Annotate,
                Enter, Fill, OpenTmp, Dump, Replace, PersistFails, Goto
  <2> QED
    BY <2>1, <2>2, ToldUnmoved
<1>10. CASE UNCHANGED vars
  BY <1>0, <1>10 DEF vars, ToldReader
<1> QED
  BY <1>1, <1>2, <1>3, <1>4, <1>5, <1>6, <1>7, <1>8, <1>9, <1>10 DEF Next, ReaderStep

\* An answer is given with the code and the status that its reader has read.
LEMMA OkStep == IInv /\ [Next]_vars => OkMeansTerminal'
<1> SUFFICES ASSUME IInv, [Next]_vars, NEW t \in Reader,
                    answer'[t].code = 200, answer' # answer
             PROVE  answer'[t].status \in Terminal
  BY DEF IInv, OkMeansTerminal
<1>0. TypeOK /\ ToldReader(t) /\ answer[t].code = 200 => answer[t].status \in Terminal
  BY DEF IInv, Told, OkMeansTerminal
<1>1. ASSUME NEW u \in Reader, ReadFields(u) PROVE answer'[t].status \in Terminal
  BY <1>1 DEF ReadFields, IInv, TypeOK, Told, ToldReader, OkMeansTerminal
<1>2. ASSUME NEW u \in Reader, NEW r \in Request, GetUnknown(u, r)
      PROVE  answer'[t].status \in Terminal
  BY <1>2 DEF GetUnknown, IInv, TypeOK, NotFound, OkMeansTerminal
<1>3. CASE Crash
  BY <1>3 DEF Crash, NotFound
<1> QED
  BY <1>1, <1>2, <1>3 DEF Next, vars, WriterStep, ReaderStep, SetStatus, SetTerminal, Assign,
     Fill, Annotate, OpenTmp, Dump, Replace, PersistFails, GetRecord, ReadCode, ReadStatus,
     Goto, Restart, readerVars

-----------------------------------------------------------------------------
(* The theorems.                                                           *)

\* The conjunction is inductive, hence invariant.
THEOREM Invariance == Spec => []IInv
<1>1. Init => IInv
  BY InitInv
<1>2. IInv /\ [Next]_vars => IInv'
  BY TypeStep, ExclusiveStep, TmpIsCopyStep, MemoryCompleteStep, DurableCompleteStep,
     DurableNotAheadStep, ToldStep, OkStep
  DEF IInv
<1> QED
  BY <1>1, <1>2, PTL DEF Spec

\* ProofStore's variables keep their types (proof_store.py, get_proof).
THEOREM TypeCorrect == Spec => []TypeOK
<1>1. IInv => TypeOK
  BY DEF IInv
<1> QED
  BY <1>1, Invariance, PTL

\* Whatever crashes and write errors happen, the store file is never torn:
\* _load can always parse it (proof_store.py, _persist and _load).
THEOREM NeverTorn == Spec => []StoreNeverTorn
<1>1. IInv => StoreNeverTorn
  BY DEF IInv
<1> QED
  BY <1>1, Invariance, PTL

\* Every persisted record has the fields that its status calls for.
THEOREM PersistedComplete == Spec => []DurableComplete
<1>1. IInv => DurableComplete
  BY DEF IInv
<1> QED
  BY <1>1, Invariance, PTL

\* get_proof answers 200 only with a terminal status (server.py, get_proof).
THEOREM OkIsTerminal == Spec => []OkMeansTerminal
<1>1. IInv => OkMeansTerminal
  BY DEF IInv
<1> QED
  BY <1>1, Invariance, PTL

\* The persisted status of a request only moves forward, through any number of
\* crashes, restarts and failed writes; a persisted terminal status is final.
THEOREM PersistedAdvances == Spec => DurableAdvances
<1>1. IInv /\ [Next]_vars => [\A r \in Request : Advances(Durable(r), Durable(r)')]_vars
  <2> SUFFICES ASSUME IInv, [Next]_vars, NEW r \in Request
               PROVE  Advances(Durable(r), Durable(r)')
    OBVIOUS
  <2>1. CASE store' = store
    BY <2>1 DEF Durable, Advances
  <2>2. CASE store' # store
    BY <2>2, StoreStep DEF IInv, DurableNotAhead, Durable
  <2> QED
    BY <2>1, <2>2
<1> QED
  BY <1>1, Invariance, PTL DEF Spec, DurableAdvances

\* Between two crashes, polls of one client never show a status going backwards.
THEOREM PollsMoveForward == Spec => PollsAdvance
<1>1. IInv /\ [Next]_vars =>
        [up' => \A t \in Reader : Advances(answer[t].status, answer'[t].status)]_vars
  <2> SUFFICES ASSUME IInv, [Next]_vars, up', NEW t \in Reader, answer'[t] # answer[t]
               PROVE  Advances(answer[t].status, answer'[t].status)
    BY DEF Advances
  <2>0. TypeOK /\ ToldReader(t)
    BY DEF IInv, Told
  <2>1. ASSUME NEW u \in Reader, ReadFields(u)
        PROVE  Advances(answer[t].status, answer'[t].status)
    BY <2>0, <2>1 DEF ReadFields, TypeOK, ToldReader
  <2>2. ASSUME NEW u \in Reader, NEW r \in Request, GetUnknown(u, r)
        PROVE  Advances(answer[t].status, answer'[t].status)
    <3>1. u = t /\ get[t].req \in {None, r} /\ get[t].at = "idle"
          /\ records[r].status = Absent /\ answer'[t].status = Absent
      BY <2>0, <2>2 DEF GetUnknown, Lookup, TypeOK, NotFound
    <3> QED
      BY <2>0, <3>1, ConstantAssumption DEF ToldReader, Advances
  <2> QED
    BY <2>1, <2>2 DEF Next, vars, WriterStep, ReaderStep, SetStatus, SetTerminal, Assign,
       Fill, Annotate, OpenTmp, Dump, Replace, PersistFails, GetRecord, ReadCode, ReadStatus,
       Goto, Crash, Restart, readerVars
<1> QED
  BY <1>1, Invariance, PTL DEF Spec, PollsAdvance

\* When a call of the store returns without raising, the file holds the records
\* of all requests as they are in memory.
THEOREM ReturnedDurable == Spec => ReturnedIsDurable
<1>1. IInv /\ [Next]_vars =>
        [up' => \A t \in Writer :
           pc[t] = "replace" /\ pc'[t] = "idle" /\ tmp' = NoFile => store'.data = records']_vars
  <2> SUFFICES ASSUME IInv, Next, up', NEW t \in Writer,
                      pc[t] = "replace", pc'[t] = "idle", tmp' = NoFile
               PROVE  store'.data = records'
    BY DEF vars
  <2>1. tmp.kind = "whole" /\ tmp.data = records /\ tmp' # tmp
    BY DEF IInv, TmpIsCopy, NoFile
  <2>2. PICK u \in Writer : OpenTmp(u) \/ Dump(u) \/ Replace(u)
    BY <2>1 DEF Next, WriterStep, ReaderStep, SetStatus, SetTerminal, Assign, Fill, Annotate,
       PersistFails, GetUnknown, GetRecord, ReadCode, ReadStatus, ReadFields, Crash, Restart
  <2>3. Replace(u)
    BY <2>2 DEF OpenTmp, Dump, NoFile
  <2> QED
    BY <2>1, <2>3 DEF Replace
<1> QED
  BY <1>1, Invariance, PTL DEF Spec, ReturnedIsDurable

\* ProofStore implements StatusStore: an assignment is a Move that has not
\* reached the file, the rename is Publish, the crash is Lose, and whatever else
\* happens inside a call, in get_proof or at a restart is seen by nobody.
THEOREM Implementation == Spec => ImplementsStatusStore
<1> DEFINE mem == [r \in Request |-> IF up THEN records[r].status ELSE Durable(r)]
           dur == [r \in Request |-> Durable(r)]
<1>1. Init => Contract!Init
  BY DEF Init, Contract!Init, Contract!Absent, Absent, Durable, NoFile, Empty, Unknown
<1>2. IInv /\ [Next]_vars => [Contract!Next]_(Contract!vars)
  <2> SUFFICES ASSUME IInv, [Next]_vars
               PROVE  Contract!Next \/ (mem' = mem /\ dur' = dur)
    BY DEF Contract!vars
  <2>1. ASSUME NEW t \in Writer, NEW r \in Request, NEW s \in Status, Assign(t, r, s)
        PROVE  Contract!Move(r, s)
    <3>1. up /\ up' /\ store' = store /\ CheckTransition(records[r].status, s)
      BY <2>1 DEF Assign, Enter
    <3>2. records'[r].status = s /\ \A q \in Request : q # r => records'[q] = records[q]
      BY <2>1 DEF Assign, IInv, TypeOK, Records, Record
    <3>3. mem' = [mem EXCEPT ![r] = s] /\ dur' = dur
      BY <3>1, <3>2 DEF Durable
    <3>4. Contract!CheckTransition(mem[r], s)
      BY <3>1 DEF CheckTransition, AllowedTransitions, InitialStatus, Absent,
         Contract!CheckTransition, Contract!AllowedTransitions, Contract!InitialStatus,
         Contract!Absent
    <3> QED
      BY <3>3, <3>4 DEF Contract!Move
  <2>2. ASSUME NEW t \in Writer, Fill(t) PROVE mem' = mem /\ dur' = dur
    BY <2>2 DEF Fill, Goto, IInv, TypeOK, Records, Record, Durable
  <2>3. ASSUME NEW t \in Writer, Replace(t) PROVE Contract!Publish
    <3>1. up /\ up' /\ records' = records /\ store'.data = records
      BY <2>3 DEF Replace, IInv, Exclusive, Inside, TmpIsCopy
    <3> QED
      BY <3>1 DEF Contract!Publish, Durable
  <2>4. CASE Crash
    BY <2>4 DEF Crash, Contract!Next, Contract!Lose, Durable
  <2>5. CASE Restart
    BY <2>5 DEF Restart, Durable
  <2>6. ASSUME NEW t \in Writer,
               \/ \E r \in Request : Annotate(t, r)
               \/ OpenTmp(t) \/ Dump(t) \/ PersistFails(t)
        PROVE  mem' = mem /\ dur' = dur
    BY <2>6 DEF Annotate, OpenTmp, Dump, PersistFails, Goto, Durable
  <2>7. ASSUME NEW t \in Reader, ReaderStep(t) PROVE mem' = mem /\ dur' = dur
    <3>1. up' = up /\ records' = records /\ store' = store
      BY <2>7 DEF ReaderStep, GetUnknown, GetRecord, ReadCode, ReadStatus, ReadFields, writerVars
    <3> QED
      BY <3>1 DEF Durable
  <2>8. CASE UNCHANGED vars
    BY <2>8 DEF vars, Durable
  <2> QED
    BY <2>1, <2>2, <2>3, <2>4, <2>5, <2>6, <2>7, <2>8
    DEF Next, WriterStep, SetStatus, SetTerminal, Contract!Next, Contract!Status, Status
<1> QED
  BY <1>1, <1>2, Invariance, PTL DEF Spec, ImplementsStatusStore, Contract!Spec

-----------------------------------------------------------------------------
(* Calls end: the part of it that is about states and steps.               *)

CallLeft == [idle |-> 0, replace |-> 1, dump |-> 2, open |-> 3, fill |-> 4]

\* The lock is taken only while a call is under way, whose thread waits for nothing
\* more; each step of the call brings its end nearer, and no other thread's does
\* anything to it, short of a crash.
LockIsInUse == lock # None => lock \in Writer /\ Inside(lock)

CallGoesOn ==
  [][up' => \A t \in Writer : Inside(t) =>
       \/ CallLeft[pc'[t]] < CallLeft[pc[t]]
       \/ pc'[t] = pc[t] /\ ~WriterStep(t)]_vars

\* No write error leaves the lock of the store behind, and a call that has it gives
\* it up in four steps at most.
THEOREM CallsGiveUpTheLock == Spec => []LockIsInUse /\ CallGoesOn
<1>1. Init => LockIsInUse
  BY DEF Init, LockIsInUse
<1>2. IInv /\ LockIsInUse /\ [Next]_vars => LockIsInUse'
  <2> SUFFICES ASSUME IInv, LockIsInUse, [Next]_vars PROVE LockIsInUse'
    OBVIOUS
  <2>0. /\ pc \in [Writer -> {"idle", "fill", "open", "dump", "replace"}]
        /\ \A t \in Writer : Inside(t) => lock = t
        /\ None \notin Writer
    BY ConstantAssumption DEF IInv, TypeOK, Exclusive
  <2>1. ASSUME NEW t \in Writer, Fill(t) \/ OpenTmp(t) \/ Dump(t) PROVE LockIsInUse'
    BY <2>0, <2>1 DEF Fill, OpenTmp, Dump, Goto, LockIsInUse, Inside
  <2>2. ASSUME NEW t \in Writer, Replace(t) \/ PersistFails(t) PROVE LockIsInUse'
    BY <2>2 DEF Replace, PersistFails, Leave, LockIsInUse
  <2>3. ASSUME NEW t \in Reader, ReaderStep(t) PROVE LockIsInUse'
    BY <2>3 DEF ReaderStep, GetUnknown, GetRecord, ReadCode, ReadStatus, ReadFields, writerVars,
       LockIsInUse, Inside
  <2>4. CASE Crash \/ Restart \/ UNCHANGED vars
    BY <2>4 DEF Crash, Restart, vars, LockIsInUse, Inside
  <2>5. ASSUME NEW t \in Writer, WriterStep(t) PROVE LockIsInUse'
    <3>1. CASE \E r \in Request, s \in Status : SetStatus(t, r, s) \/ SetTerminal(t, r, s)
      BY <2>0, <3>1 DEF SetStatus, SetTerminal, Assign, Enter, LockIsInUse, Inside
    <3>2. CASE \E r \in Request : Annotate(t, r)
      BY <2>0, <3>2 DEF Annotate, Enter, LockIsInUse, Inside
    <3> QED
      BY <2>1, <2>2, <2>5, <3>1, <3>2 DEF WriterStep
  <2> QED
    BY <2>3, <2>4, <2>5 DEF Next
<1>3. IInv /\ [Next]_vars =>
        [up' => \A t \in Writer : Inside(t) =>
           \/ CallLeft[pc'[t]] < CallLeft[pc[t]]
           \/ pc'[t] = pc[t] /\ ~WriterStep(t)]_vars
  <2> SUFFICES ASSUME IInv, Next, up', NEW t \in Writer, Inside(t)
               PROVE  \/ CallLeft[pc'[t]] < CallLeft[pc[t]]
                      \/ pc'[t] = pc[t] /\ ~WriterStep(t)
    OBVIOUS
  <2>0. /\ pc \in [Writer -> {"idle", "fill", "open", "dump", "replace"}] /\ pc[t] # "idle"
        /\ up /\ lock = t /\ None \notin Writer
        /\ \A u \in Writer : u # t => pc[u] = "idle"
    BY ConstantAssumption DEF IInv, TypeOK, Exclusive, Inside
  <2>1. CASE WriterStep(t)
    <3>1. Fill(t) \/ OpenTmp(t) \/ Dump(t) \/ Replace(t) \/ PersistFails(t)
      BY <2>0, <2>1 DEF WriterStep, SetStatus, SetTerminal, Assign, Annotate, Enter
    <3> QED
      BY <2>0, <3>1 DEF Fill, OpenTmp, Dump, Replace, PersistFails, Goto, Leave, CallLeft
  <2>2. CASE ~WriterStep(t)
    <3>1. ~(\E u \in Writer : u # t /\ WriterStep(u))
      BY <2>0 DEF WriterStep, SetStatus, SetTerminal, Assign, Annotate, Enter, Fill, OpenTmp, Dump,
         Replace, PersistFails, Goto
    <3>2. (\E u \in Reader : ReaderStep(u)) \/ Restart \/ Crash
      BY <2>2, <3>1 DEF Next
    <3> QED
      BY <2>0, <2>2, <3>2
      DEF ReaderStep, GetUnknown, GetRecord, ReadCode, ReadStatus, ReadFields, writerVars, Restart,
          Crash
  <2> QED
    BY <2>1, <2>2
<1> QED
  BY <1>1, <1>2, <1>3, Invariance, PTL DEF Spec, CallGoesOn
=============================================================================
