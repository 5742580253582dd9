------------------------- MODULE ModelRuntimeProofs -------------------------
(***************************************************************************)
(* A request gets its own tensors, for any number of requests.             *)
(*                                                                         *)
(* The two fields may hold what a failed forward pass has left there, so   *)
(* the argument is not that they are empty when a request comes in.  It is *)
(* that a field is only ever filled through a hook (Filled), that a module *)
(* with a post hook has a pre hook too (PreFirst), and that a request that *)
(* has gone past an attached hook finds its own tensor in that hook's      *)
(* field (Fresh), since it is alone inside the lock (Exclusive).           *)
(***************************************************************************)
EXTENDS ModelRuntime, TLAPS

Inside == {"load", "register", "forward", "module", "pop", "hash"}

\* The lock is held by the request that is inside it, and is never left behind.
Exclusive == \A r \in Request : pc[r] \in Inside <=> infer_lock = r

\* Hooks are attached once, before the first forward pass.
Attached ==
  /\ ~hook_capture => hooks = [pre |-> 0, post |-> 0]
  /\ \A r \in Request : pc[r] \in {"forward", "module", "pop", "hash", "done"} => hook_capture

PreFirst == hooks.post = 1 => hooks.pre = 1

Filled ==
  /\ x_pre # None => hooks.pre = 1
  /\ delta_post # None => hooks.post = 1

Fresh ==
  \A r \in Request :
    /\ pc[r] \in {"module", "pop"} /\ hooks.pre = 1 => x_pre = r
    /\ pc[r] = "pop" /\ hooks.post = 1 => delta_post = r

\* A request that has its packet was served through both hooks.
Served ==
  \A r \in Request : pc[r] \in {"hash", "done"} => hooks = [pre |-> 1, post |-> 1]

\* The inductive invariant.
IInv ==
  /\ TypeOK
  /\ Exclusive
  /\ Attached
  /\ PreFirst
  /\ Filled
  /\ Fresh
  /\ PacketIsOwn
  /\ Served

-----------------------------------------------------------------------------
\* Before the first request nothing is attached and nothing is captured.
LEMMA InitInv == Init => IInv
<1> SUFFICES ASSUME Init PROVE IInv
  OBVIOUS
<1>1. NoPacket \in [x_pre : Request \cup {None}, delta_post : Request \cup {None}]
  BY DEF NoPacket
<1>2. TypeOK
  <2>1. packet \in [Request -> [x_pre : Request \cup {None}, delta_post : Request \cup {None}]]
    BY <1>1 DEF Init
  <2>2. loaded \in BOOLEAN /\ hook_capture \in BOOLEAN
    BY DEF Init
  <2>3. /\ infer_lock \in Request \cup {None}
        /\ x_pre \in Request \cup {None}
        /\ delta_post \in Request \cup {None}
        /\ hooks \in [pre : 0..1, post : 0..1]
    BY DEF Init
  <2>4. pc \in [Request -> {"idle", "load", "register", "forward", "module", "pop", "hash",
                          "done", "raised"}]
    BY DEF Init
  <2> QED
    BY <2>1, <2>2, <2>3, <2>4 DEF TypeOK
<1>3. Exclusive /\ Attached /\ Fresh /\ PacketIsOwn /\ Served
  BY RuntimeAssumption DEF Init, Inside, Exclusive, Attached, Fresh, PacketIsOwn, Served
<1>4. PreFirst /\ Filled
  BY DEF Init, PreFirst, Filled
<1> QED
  BY <1>2, <1>3, <1>4 DEF IInv

\* Nobody enters the lock while a request is inside.
LEMMA EnterStep ==
  ASSUME IInv, NEW r \in Request, Enter(r)
  PROVE  IInv'
BY RuntimeAssumption
   DEF Enter, Goto, sharedVars, IInv, TypeOK, Inside, Exclusive, Attached, PreFirst, Filled,
       Fresh, PacketIsOwn, Served

\* Loading the model and attaching the hooks touch no tensor.
LEMMA PrepareStep ==
  ASSUME IInv, NEW r \in Request, Load(r) \/ Register(r) \/ AttachRaises(r)
  PROVE  IInv'
<1> USE RuntimeAssumption
    DEF Goto, IInv, TypeOK, Inside, Exclusive, Attached, PreFirst, Filled, Fresh,
        PacketIsOwn, Served
<1>1. CASE Load(r)
  BY <1>1 DEF Load
<1>2. CASE Register(r)
  BY <1>2 DEF Register
<1>3. CASE AttachRaises(r)
  BY <1>3 DEF AttachRaises
<1> QED
  BY <1>1, <1>2, <1>3

\* The forward pass fills the fields through the hooks there are.
LEMMA ForwardStep ==
  ASSUME IInv, NEW r \in Request, PreHook(r) \/ PostHook(r)
  PROVE  IInv'
<1> USE RuntimeAssumption
    DEF Goto, IInv, TypeOK, Inside, Exclusive, Attached, PreFirst, Filled, Fresh,
        PacketIsOwn, Served
<1>1. CASE PreHook(r)
  BY <1>1 DEF PreHook
<1>2. CASE PostHook(r)
  BY <1>2 DEF PostHook
<1> QED
  BY <1>1, <1>2

\* What pop_capture finds when both fields are filled is the request's own.
LEMMA PopStep ==
  ASSUME IInv, NEW r \in Request, PopCapture(r)
  PROVE  IInv'
<1>1. x_pre = r /\ delta_post = r
  BY DEF PopCapture, Captured, Goto, IInv, PreFirst, Filled, Fresh
<1>2. hooks = [pre |-> 1, post |-> 1]
  BY DEF PopCapture, Captured, IInv, TypeOK, PreFirst, Filled
<1> QED
  BY <1>1, <1>2, RuntimeAssumption
     DEF PopCapture, Goto, IInv, TypeOK, Inside, Exclusive, Attached, PreFirst, Filled, Fresh,
         PacketIsOwn, Served

\* Leaving the lock, with a result or an error, leaves the fields as they are.
LEMMA LeaveStep ==
  ASSUME IInv, NEW r \in Request, Return(r) \/ Raise(r) \/ PopRaises(r)
  PROVE  IInv'
<1> USE RuntimeAssumption
    DEF Goto, sharedVars, IInv, TypeOK, Inside, Exclusive, Attached, PreFirst, Filled, Fresh,
        PacketIsOwn, Served
<1>1. CASE Return(r)
  BY <1>1 DEF Return
<1>2. CASE Raise(r)
  BY <1>2 DEF Raise
<1>3. CASE PopRaises(r)
  BY <1>3 DEF PopRaises
<1> QED
  BY <1>1, <1>2, <1>3

\* IInv is an invariant of ModelRuntime.
THEOREM Invariance == Spec => []IInv
<1>1. IInv /\ [Next]_vars => IInv'
  <2> SUFFICES ASSUME IInv, [Next]_vars PROVE IInv'
    OBVIOUS
  <2>1. CASE UNCHANGED vars
    BY <2>1 DEF vars, sharedVars, IInv, TypeOK, Inside, Exclusive, Attached, PreFirst, Filled,
                Fresh, PacketIsOwn, Served
  <2>2. ASSUME NEW r \in Request, Enter(r) \/ InferStep(r) \/ Raise(r) PROVE IInv'
    BY <2>2, EnterStep, PrepareStep, ForwardStep, PopStep, LeaveStep DEF InferStep
  <2> QED
    BY <2>1, <2>2 DEF Next
<1> QED
  BY <1>1, InitInv, PTL DEF Spec

\* Whatever raised before, a request is answered from tensors of its own
\* forward pass (model_runtime.py, infer_prefill).
THEOREM OwnPacket == Spec => []PacketIsOwn
<1>1. IInv => PacketIsOwn
  BY DEF IInv
<1> QED
  BY <1>1, Invariance, PTL

\* No request is served by a module whose hooks were attached only in part, or
\* more than once.
THEOREM BothHooks == Spec => []ServedByBothHooks
<1>1. IInv => ServedByBothHooks
  BY DEF IInv, Served, ServedByBothHooks
<1> QED
  BY <1>1, Invariance, PTL

\* Type correctness of ModelRuntime.
THEOREM TypeCorrect == Spec => []TypeOK
<1>1. IInv => TypeOK
  BY DEF IInv
<1> QED
  BY <1>1, Invariance, PTL

-----------------------------------------------------------------------------
(* Every request ends: the part of it that is about states and steps.      *)

\* Inside the lock a request waits for nothing, before it for the lock.
CanGo(r) == pc[r] \in Inside \/ (pc[r] = "idle" /\ infer_lock = None)

SomebodyCanGo ==
  (\E r \in Request : pc[r] \notin {"done", "raised"}) => \E r \in Request : CanGo(r)

\* The most steps that a request has left.
StepsLeft ==
  [idle |-> 7, load |-> 6, register |-> 5, forward |-> 4, module |-> 3, pop |-> 2, hash |-> 1,
   done |-> 0, raised |-> 0]

\* Every step is one of a request that could go on, and brings it nearer to its end.
StepsBringNearer ==
  [][\E r \in Request :
       /\ CanGo(r) /\ StepsLeft[pc'[r]] < StepsLeft[pc[r]]
       /\ \A q \in Request : q # r => pc'[q] = pc[q]]_vars

\* No request waits for a lock that a failed one has left behind: until all have
\* their answer or their error some request can go on, and each takes at most seven
\* steps.
THEOREM NobodyIsStuck == Spec => []SomebodyCanGo /\ StepsBringNearer
<1>1. IInv => SomebodyCanGo
  <2> SUFFICES ASSUME IInv, NEW r \in Request, pc[r] \notin {"done", "raised"}
               PROVE  \E q \in Request : CanGo(q)
    BY DEF SomebodyCanGo
  <2>1. CASE infer_lock = None
    BY <2>1 DEF CanGo, Inside, IInv, TypeOK
  <2>2. CASE infer_lock \in Request
    BY <2>2 DEF CanGo, IInv, Exclusive
  <2> QED
    BY <2>1, <2>2 DEF IInv, TypeOK
<1>2. IInv /\ [Next]_vars => [\E r \in Request :
                                /\ CanGo(r) /\ StepsLeft[pc'[r]] < StepsLeft[pc[r]]
                                /\ \A q \in Request : q # r => pc'[q] = pc[q]]_vars
  <2> SUFFICES ASSUME IInv, NEW r \in Request, Enter(r) \/ InferStep(r) \/ Raise(r)
               PROVE  /\ CanGo(r) /\ StepsLeft[pc'[r]] < StepsLeft[pc[r]]
                      /\ \A q \in Request : q # r => pc'[q] = pc[q]
    BY DEF Next
  <2>0. pc \in [Request -> {"idle", "load", "register", "forward", "module", "pop", "hash",
                            "done", "raised"}]
    BY DEF IInv, TypeOK
  <2>1. CASE Enter(r)
    BY <2>0, <2>1 DEF Enter, Goto, CanGo, StepsLeft
  <2>2. CASE Load(r) \/ Register(r) \/ PreHook(r) \/ PostHook(r)
    BY <2>0, <2>2 DEF Load, Register, PreHook, PostHook, Goto, CanGo, Inside, StepsLeft
  <2>3. CASE PopCapture(r) \/ PopRaises(r)
    BY <2>0, <2>3 DEF PopCapture, PopRaises, Goto, CanGo, Inside, StepsLeft
  <2>4. CASE Return(r) \/ AttachRaises(r)
    BY <2>0, <2>4 DEF Return, AttachRaises, Goto, CanGo, Inside, StepsLeft
  <2>5. CASE Raise(r)
    BY <2>0, <2>5 DEF Raise, CanGo, Inside, StepsLeft
  <2> QED
    BY <2>1, <2>2, <2>3, <2>4, <2>5 DEF InferStep
<1> QED
  BY <1>1, <1>2, Invariance, PTL DEF Spec, StepsBringNearer
=============================================================================
