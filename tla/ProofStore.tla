----------------------------- MODULE ProofStore -----------------------------
(***************************************************************************)
(* mvp_server/proof/proof_store.py: the status records of one process, the *)
(* lock that guards them, the JSON file they are persisted to through a    *)
(* temporary file, and MVPServer.get_proof, which reads a live record      *)
(* outside the lock.                                                       *)
(*                                                                         *)
(* A writer thread holds the lock from the transition check to the end of  *)
(* _persist.  Its mutation is two steps, because get_proof may read the    *)
(* record between them: the status first, then the other fields.  _persist *)
(* is three: open the temporary file (which truncates it), dump every      *)
(* record into it, rename it over the store.  The process may crash at any *)
(* point, and when MayFail is TRUE each of the three may raise.            *)
(*                                                                         *)
(* A call that _check_transition rejects raises and changes nothing, so it *)
(* is no step here.  Timestamps and references are abstracted to whether   *)
(* they are present.                                                       *)
(***************************************************************************)
EXTENDS ProofStatus

CONSTANTS
  Request,    \* request ids
  Writer,     \* threads that call set_status, set_terminal, annotate_timestamps
  Reader,     \* threads that call get_proof
  None,       \* no thread, no request
  MayFail     \* whether writing the store file may raise (disk full, ...)

ASSUME ConstantAssumption ==
  /\ None \notin Writer \cup Request
  /\ MayFail \in BOOLEAN

VARIABLES
  up,         \* the process is running
  records,    \* ProofStore._records
  lock,       \* the thread inside ProofStore._lock, or None
  pc, req,    \* where each writer is, and the request of its call
  tmp, store, \* the temporary file and the store file
  get,        \* where each reader is in get_proof, and what it copied so far
  answer      \* what each reader was last told about the request it polls

writerVars == <<records, lock, pc, req>>
readerVars == <<get, answer>>
vars == <<up, records, lock, pc, req, tmp, store, get, answer>>

\* The parts of a ProofRecord that are filled in after its status.
Field == {"worker_claimed_at", "artifact_refs", "error", "terminal_at"}

Record  == [status : Status \cup {Absent}, fields : SUBSET Field]
Unknown == [status |-> Absent, fields |-> {}]
Records == [Request -> Record]
Empty   == [r \in Request |-> Unknown]

File   == [kind : {"missing", "torn", "whole"}, data : Records]
NoFile == [kind |-> "missing", data |-> Empty]

Code     == {200, 202, 404}
Reply    == [code : Code, status : Status \cup {Absent}, fields : SUBSET Field]
NotFound == [code |-> 404, status |-> Absent, fields |-> {}]

\* What a writer that moves a record to status s fills in once the status is set.
FieldsOf(s) ==
  {f \in Field :
     \/ f = "worker_claimed_at" /\ s = "pending"
     \/ f = "terminal_at"       /\ s \in Terminal
     \/ f = "artifact_refs"     /\ s = "ready"
     \/ f = "error"             /\ s = "failed"}

\* A reader's place in get_proof, the request it polls and what it has read.
Polling    == [at : {"idle", "code", "status", "fields"}, req : Request \cup {None},
               code : Code, status : Status \cup {Absent}]
NotReading == [at |-> "idle", req |-> None, code |-> 404, status |-> Absent]

-----------------------------------------------------------------------------
Init ==
  /\ up = TRUE
  /\ records = Empty
  /\ lock = None
  /\ pc = [t \in Writer |-> "idle"]
  /\ req = [t \in Writer |-> None]
  /\ tmp = NoFile
  /\ store = NoFile
  /\ get = [t \in Reader |-> NotReading]
  /\ answer = [t \in Reader |-> NotFound]

\* Mutant of Enter: the call does not take the lock.
EnterUnlocked(t, r, at) ==
  /\ up
  /\ pc[t] = "idle"
  /\ lock' = t
  /\ req' = [req EXCEPT ![t] = r]
  /\ pc' = [pc EXCEPT ![t] = at]

\* The call takes the lock and starts its critical section at the given step.
Enter(t, r, at) ==
  /\ up /\ lock = None
  /\ pc[t] = "idle"
  /\ lock' = t
  /\ req' = [req EXCEPT ![t] = r]
  /\ pc' = [pc EXCEPT ![t] = at]

Leave(t) ==
  /\ lock' = None
  /\ pc' = [pc EXCEPT ![t] = "idle"]
  /\ req' = [req EXCEPT ![t] = None]

Goto(t, from, to) ==
  /\ pc[t] = from
  /\ pc' = [pc EXCEPT ![t] = to]
  /\ UNCHANGED <<up, lock, req, readerVars>>

\* Mutant of Assign: the transition is not checked.
AssignUnchecked(t, r, s) ==
  /\ Enter(t, r, "fill")
  /\ records' = [records EXCEPT ![r].status = s]
  /\ UNCHANGED <<up, tmp, store, readerVars>>

\* The check and the assignment of the status, common to set_status and set_terminal.
Assign(t, r, s) ==
  /\ Enter(t, r, "fill")
  /\ CheckTransition(records[r].status, s)
  /\ records' = [records EXCEPT ![r].status = s]
  /\ UNCHANGED <<up, tmp, store, readerVars>>

SetStatus(t, r, s) == s \in InitialStatus \cup {"pending"} /\ Assign(t, r, s)

SetTerminal(t, r, s) == s \in {"ready", "failed"} /\ Assign(t, r, s)

\* Mutant of Fill: terminal_at is forgotten.
FillNoTerminalAt(t) ==
  LET r == req[t] IN
  /\ Goto(t, "fill", "open")
  /\ records' = [records EXCEPT ![r].fields =
                   @ \cup (FieldsOf(records[r].status) \ {"terminal_at"})]
  /\ UNCHANGED <<tmp, store>>

\* The rest of the mutation: timestamps, and error or artifact references.
Fill(t) ==
  LET r == req[t] IN
  /\ Goto(t, "fill", "open")
  /\ records' = [records EXCEPT ![r].fields = @ \cup FieldsOf(records[r].status)]
  /\ UNCHANGED <<tmp, store>>

\* annotate_timestamps: returns at once when there is no record, else persists.
Annotate(t, r) ==
  /\ Enter(t, r, "open")
  /\ records[r].status # Absent
  /\ UNCHANGED <<up, records, tmp, store, readerVars>>

\* Mutant of OpenTmp: the store file is opened for writing in place.
OpenStoreInPlace(t) ==
  /\ Goto(t, "open", "dump")
  /\ store' = [kind |-> "torn", data |-> Empty]
  /\ UNCHANGED <<records, tmp>>

\* Opening the temporary file for writing truncates it.
OpenTmp(t) ==
  /\ Goto(t, "open", "dump")
  /\ tmp' = [kind |-> "torn", data |-> Empty]
  /\ UNCHANGED <<records, store>>

\* json.dump of every record, and the close that flushes it.
Dump(t) ==
  /\ Goto(t, "dump", "replace")
  /\ tmp' = [kind |-> "whole", data |-> records]
  /\ UNCHANGED <<records, store>>

\* tmp_path.replace, and the lock is released.
Replace(t) ==
  /\ pc[t] = "replace"
  /\ store' = tmp
  /\ tmp' = NoFile
  /\ Leave(t)
  /\ UNCHANGED <<up, records, readerVars>>

\* _persist raises: the lock is released, the mutation stays in memory.
PersistFails(t) ==
  /\ MayFail
  /\ pc[t] \in {"open", "dump", "replace"}
  /\ Leave(t)
  /\ UNCHANGED <<up, records, tmp, store, readerVars>>

-----------------------------------------------------------------------------
(* get_proof: a lookup under the lock, then the code, the status and the   *)
(* other fields, each read from the live record without it.  A client asks *)
(* for one request, again and again.                                       *)

Lookup(t, r) ==
  /\ up /\ lock = None
  /\ get[t].at = "idle"
  /\ get[t].req \in {None, r}

GetUnknown(t, r) ==
  /\ Lookup(t, r)
  /\ records[r].status = Absent
  /\ get' = [get EXCEPT ![t] = [@ EXCEPT !.req = r]]
  /\ answer' = [answer EXCEPT ![t] = NotFound]
  /\ UNCHANGED <<up, writerVars, tmp, store>>

GetRecord(t, r) ==
  /\ Lookup(t, r)
  /\ records[r].status # Absent
  /\ get' = [get EXCEPT ![t] = [@ EXCEPT !.at = "code", !.req = r]]
  /\ UNCHANGED <<up, writerVars, tmp, store, answer>>

\* Mutant of ReadCode: pending counts as an answer.
ReadCodePendingIsDone(t) ==
  LET code == IF records[get[t].req].status = "queued" THEN 202 ELSE 200 IN
  /\ get[t].at = "code"
  /\ get' = [get EXCEPT ![t] = [@ EXCEPT !.at = "status", !.code = code]]
  /\ UNCHANGED <<up, writerVars, tmp, store, answer>>

\* Mutant of ReadCode: a code that get_proof never answers with.
ReadCodeNoContent(t) ==
  LET code == IF records[get[t].req].status \in Active THEN 204 ELSE 200 IN
  /\ get[t].at = "code"
  /\ get' = [get EXCEPT ![t] = [@ EXCEPT !.at = "status", !.code = code]]
  /\ UNCHANGED <<up, writerVars, tmp, store, answer>>

ReadCode(t) ==
  LET code == IF records[get[t].req].status \in Active THEN 202 ELSE 200 IN
  /\ get[t].at = "code"
  /\ get' = [get EXCEPT ![t] = [@ EXCEPT !.at = "status", !.code = code]]
  /\ UNCHANGED <<up, writerVars, tmp, store, answer>>

ReadStatus(t) ==
  /\ get[t].at = "status"
  /\ get' = [get EXCEPT ![t] = [@ EXCEPT !.at = "fields",
                                         !.status = records[get[t].req].status]]
  /\ UNCHANGED <<up, writerVars, tmp, store, answer>>

ReadFields(t) ==
  LET r == get[t].req IN
  /\ get[t].at = "fields"
  /\ answer' = [answer EXCEPT ![t] =
                  [code |-> get[t].code, status |-> get[t].status,
                   fields |-> records[r].fields]]
  /\ get' = [get EXCEPT ![t] = [NotReading EXCEPT !.req = r]]
  /\ UNCHANGED <<up, writerVars, tmp, store>>

-----------------------------------------------------------------------------
\* The process dies: memory and threads are gone, the two files stay.
Crash ==
  /\ up
  /\ up' = FALSE
  /\ records' = Empty
  /\ lock' = None
  /\ pc' = [t \in Writer |-> "idle"]
  /\ req' = [t \in Writer |-> None]
  /\ get' = [t \in Reader |-> NotReading]
  /\ answer' = [t \in Reader |-> NotFound]
  /\ UNCHANGED <<tmp, store>>

\* Mutant of Restart: the file is not loaded.
RestartEmpty ==
  /\ ~up
  /\ up' = TRUE
  /\ UNCHANGED <<records, lock, pc, req, tmp, store, readerVars>>

\* __init__ and _load: a torn store makes json.load raise, so nothing starts.
Restart ==
  /\ ~up
  /\ store.kind # "torn"
  /\ up' = TRUE
  /\ records' = store.data
  /\ UNCHANGED <<lock, pc, req, tmp, store, readerVars>>

WriterStep(t) ==
  \/ \E r \in Request, s \in Status : SetStatus(t, r, s) \/ SetTerminal(t, r, s)
  \/ \E r \in Request : Annotate(t, r)
  \/ Fill(t) \/ OpenTmp(t) \/ Dump(t) \/ Replace(t) \/ PersistFails(t)

ReaderStep(t) ==
  \/ \E r \in Request : GetUnknown(t, r) \/ GetRecord(t, r)
  \/ ReadCode(t) \/ ReadStatus(t) \/ ReadFields(t)

Next ==
  \/ \E t \in Writer : WriterStep(t)
  \/ \E t \in Reader : ReaderStep(t)
  \/ Crash
  \/ Restart

Spec == Init /\ [][Next]_vars

-----------------------------------------------------------------------------
(* Properties.                                                             *)

TypeOK ==
  /\ up \in BOOLEAN
  /\ records \in Records
  /\ lock \in Writer \cup {None}
  /\ pc \in [Writer -> {"idle", "fill", "open", "dump", "replace"}]
  /\ req \in [Writer -> Request \cup {None}]
  /\ tmp \in File
  /\ store \in File
  /\ get \in [Reader -> Polling]
  /\ answer \in [Reader -> Reply]

\* The status a restart would find for r.
Durable(r) == store.data[r].status

\* The rename publishes only complete files: whatever the crashes and the
\* failed writes, _load can parse the store (proof_store.py, _persist).
StoreNeverTorn == store.kind # "torn"

\* A persisted record is never half-mutated: a durable "ready" comes with its
\* artifact references, a durable "failed" with its error, every terminal
\* status with its timestamp, although memory passes through such states.
DurableComplete ==
  \A r \in Request : FieldsOf(Durable(r)) \subseteq store.data[r].fields

\* Whatever fails and crashes, memory and file together do what StatusStore
\* promises; while the process is down, what counts is what it will load.
Contract == INSTANCE StatusStore WITH
              status  <- [r \in Request |-> IF up THEN records[r].status ELSE Durable(r)],
              durable <- [r \in Request |-> Durable(r)]

ImplementsStatusStore == Contract!Spec

\* Through crashes, restarts and failed writes the durable status of a request
\* only moves forward along the lifecycle; a terminal one never changes.
DurableAdvances ==
  [][\A r \in Request : Advances(Durable(r), Durable(r)')]_vars

\* Whatever was lost or failed before: when a call returns, the file holds the
\* records of all requests as they are in memory.
ReturnedIsDurable ==
  [][up' => \A t \in Writer :
       pc[t] = "replace" /\ pc'[t] = "idle" /\ tmp' = NoFile => store'.data = records']_vars

\* get_proof answers 200 only with a terminal status, although it reads the
\* code and the status separately and outside the lock.
OkMeansTerminal ==
  \A t \in Reader : answer[t].code = 200 => answer[t].status \in Terminal

\* Two polls by one client, with no crash of the server between them, never
\* show a status going backwards.
PollsAdvance ==
  [][up' => \A t \in Reader : Advances(answer[t].status, answer'[t].status)]_vars
=============================================================================
