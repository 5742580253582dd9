---------------------------- MODULE ModelRuntime ----------------------------
(***************************************************************************)
(* ModelRuntime.infer_prefill (mvp_server/runtime/model_runtime.py) and    *)
(* HookCapture (mvp_server/runtime/hook_capture.py).  Request threads run  *)
(* the model's forward pass; two hooks on the target module copy its input *)
(* and its output into two fields that all requests share, and pop_capture *)
(* takes them from there.  A forward pass may raise at any point, and then *)
(* leaves in the two fields what the hooks have put there.                 *)
(*                                                                         *)
(* A tensor stands for the request whose forward pass produced it.  The    *)
(* model and the tokenizer are libraries; a forward pass calls the target  *)
(* module, with its hooks, once.                                           *)
(***************************************************************************)
EXTENDS Naturals, FiniteSets

CONSTANTS
  Request,  \* calls of infer_prefill, each by a thread of its own
  None      \* no request; nothing captured

ASSUME RuntimeAssumption == None \notin Request

VARIABLES
  infer_lock,   \* the request inside _infer_lock, or None
  pc,           \* where each request is in infer_prefill
  loaded,       \* _loaded
  hook_capture, \* hook_capture has been made
  hooks,        \* how many pre hooks and post hooks the target module has
  x_pre,        \* _x_pre
  delta_post,   \* _delta_post
  packet        \* the CapturePacket of each request

sharedVars == <<loaded, hook_capture, hooks, x_pre, delta_post>>
vars == <<infer_lock, pc, sharedVars, packet>>

NoPacket == [x_pre |-> None, delta_post |-> None]

Init ==
  /\ infer_lock = None
  /\ pc = [r \in Request |-> "idle"]
  /\ loaded \in BOOLEAN    \* model and tokenizer may be given to __init__
  /\ hook_capture = FALSE
  /\ hooks = [pre |-> 0, post |-> 0]
  /\ x_pre = None
  /\ delta_post = None
  /\ packet = [r \in Request |-> NoPacket]

Goto(r, from, to) == pc[r] = from /\ pc' = [pc EXCEPT ![r] = to]

-----------------------------------------------------------------------------
\* Mutant of Enter: inference is not serialised.
EnterUnlocked(r) ==
  /\ Goto(r, "idle", "load")
  /\ infer_lock' = r
  /\ UNCHANGED <<sharedVars, packet>>

Enter(r) ==
  /\ infer_lock = None
  /\ Goto(r, "idle", "load")
  /\ infer_lock' = r
  /\ UNCHANGED <<sharedVars, packet>>

\* load: the model is loaded by the first request that needs it.
Load(r) ==
  /\ Goto(r, "load", "register")
  /\ loaded' = TRUE
  /\ UNCHANGED <<infer_lock, hook_capture, hooks, x_pre, delta_post, packet>>

\* Mutant of Register: every request attaches the hooks.
RegisterAlways(r) ==
  /\ Goto(r, "register", "forward")
  /\ hook_capture' = TRUE
  /\ hooks' = [pre |-> hooks.pre + 1, post |-> hooks.post + 1]
  /\ UNCHANGED <<infer_lock, loaded, x_pre, delta_post, packet>>

\* _ensure_hook_registered: the first request that gets here attaches the hooks.
Register(r) ==
  /\ Goto(r, "register", "forward")
  /\ hook_capture' = TRUE
  /\ hooks' = IF hook_capture THEN hooks ELSE [pre |-> 1, post |-> 1]
  /\ UNCHANGED <<infer_lock, loaded, x_pre, delta_post, packet>>

\* The pre hook, called with the module's input.
PreHook(r) ==
  /\ Goto(r, "forward", "module")
  /\ x_pre' = IF hooks.pre > 0 THEN r ELSE x_pre
  /\ UNCHANGED <<infer_lock, loaded, hook_capture, hooks, delta_post, packet>>

\* The post hook, called with the module's output.
PostHook(r) ==
  /\ Goto(r, "module", "pop")
  /\ delta_post' = IF hooks.post > 0 THEN r ELSE delta_post
  /\ UNCHANGED <<infer_lock, loaded, hook_capture, hooks, x_pre, packet>>

Captured == x_pre # None /\ delta_post # None

\* pop_capture takes both tensors and empties both fields.
PopCapture(r) ==
  /\ Captured
  /\ Goto(r, "pop", "hash")
  /\ packet' = [packet EXCEPT ![r] = [x_pre |-> x_pre, delta_post |-> delta_post]]
  /\ x_pre' = None
  /\ delta_post' = None
  /\ UNCHANGED <<infer_lock, loaded, hook_capture, hooks>>

\* The hashes are made of the packet, and the lock is released.
Return(r) ==
  /\ Goto(r, "hash", "done")
  /\ infer_lock' = None
  /\ UNCHANGED <<sharedVars, packet>>

\* Mutant of Raise: the lock stays taken.
RaiseLocked(r) ==
  /\ pc[r] \in {"load", "register", "forward", "module", "pop", "hash"}
  /\ pc' = [pc EXCEPT ![r] = "raised"]
  /\ UNCHANGED <<infer_lock, sharedVars, packet>>

\* Anything may raise: loading, the module path, the tokenizer, the forward
\* pass before, between and after the hooks, hashing, decoding.
Raise(r) ==
  /\ pc[r] \in {"load", "register", "forward", "module", "pop", "hash"}
  /\ pc' = [pc EXCEPT ![r] = "raised"]
  /\ infer_lock' = None
  /\ UNCHANGED <<sharedVars, packet>>

\* attach raises with no hook attached, or one; hook_capture is set all the
\* same, so no later request attaches the missing ones.
AttachRaises(r) ==
  /\ ~hook_capture
  /\ Goto(r, "register", "raised")
  /\ hook_capture' = TRUE
  /\ hooks' \in {[pre |-> 0, post |-> 0], [pre |-> 1, post |-> 0]}
  /\ infer_lock' = None
  /\ UNCHANGED <<loaded, x_pre, delta_post, packet>>

\* pop_capture raises: the capture is incomplete.
PopRaises(r) ==
  /\ ~Captured
  /\ Goto(r, "pop", "raised")
  /\ infer_lock' = None
  /\ UNCHANGED <<sharedVars, packet>>

InferStep(r) ==
  \/ Load(r) \/ Register(r) \/ PreHook(r) \/ PostHook(r) \/ PopCapture(r) \/ Return(r)
  \/ AttachRaises(r) \/ PopRaises(r)

Next == \E r \in Request : Enter(r) \/ InferStep(r) \/ Raise(r)

Spec == Init /\ [][Next]_vars

\* The thread inside the lock is scheduled, and so is some thread that waits.
FairSpec ==
  /\ Spec
  /\ WF_vars(\E r \in Request : Enter(r))
  /\ \A r \in Request : WF_vars(InferStep(r))

-----------------------------------------------------------------------------
(* Properties.                                                             *)

TypeOK ==
  /\ infer_lock \in Request \cup {None}
  /\ pc \in [Request -> {"idle", "load", "register", "forward", "module", "pop", "hash",
                         "done", "raised"}]
  /\ loaded \in BOOLEAN
  /\ hook_capture \in BOOLEAN
  /\ hooks \in [pre : 0..1, post : 0..1]
  /\ x_pre \in Request \cup {None}
  /\ delta_post \in Request \cup {None}
  /\ packet \in [Request -> [x_pre : Request \cup {None}, delta_post : Request \cup {None}]]

\* What a request gets back, and so what its witness is made of, was captured
\* from its own forward pass: both tensors, whatever other requests and failed
\* forward passes have left in the shared fields (model_runtime.py:101).
PacketIsOwn ==
  \A r \in Request : pc[r] \in {"hash", "done"} =>
    packet[r] = [x_pre |-> r, delta_post |-> r]

\* A request is only served by a module with both hooks, and each only once.
ServedByBothHooks ==
  \A r \in Request : pc[r] = "done" => hooks = [pre |-> 1, post |-> 1]

\* Every request gets an answer or an error: none waits for ever for a lock
\* that a failed request has left behind.
EveryRequestEnds == \A r \in Request : <>(pc[r] \in {"done", "raised"})
=============================================================================
