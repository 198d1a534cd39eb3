------------------------------- MODULE Engine -------------------------------
(***************************************************************************)
(* The inference engine of a session (npu_backend.rs) as it is built with  *)
(* the npu-hardware feature: the ONNX Runtime library that a process loads *)
(* at most once, the cascade of execution providers by which each engine   *)
(* gets its session, and the inferences that share the session's mutex.    *)
(*                                                                         *)
(* Sessions are opened by several threads, and a session is cloned and     *)
(* used by several threads.  The runtime is external: loading it, creating *)
(* a session and running one succeed, fail, panic or never return.  A      *)
(* panic ends the thread and poisons the mutex that it holds; a call that  *)
(* hangs keeps the mutex, as no wait has a time limit.                     *)
(***************************************************************************)
EXTENDS Naturals

CONSTANTS
  Builders,  \* threads that construct an engine; engines are named by them
  Callers,   \* threads that evaluate a head
  target,    \* for each caller, the engine it uses
  Machines,  \* the hardware the process may find itself on
  NoThread,  \* the mutex is free
  MaxCalls   \* bound on the calls of each caller

ASSUME EngineAssumption ==
  /\ Builders \cap Callers = {} /\ NoThread \notin Builders \cup Callers
  /\ target \in [Callers -> Builders] /\ MaxCalls \in Nat
  /\ Machines \subseteq
       [device: BOOLEAN, runtime: BOOLEAN, vitis: BOOLEAN]

Backends == {"AmdXdnaNpu", "DirectMlGpu", "NativeCpuBaseline"}

VARIABLES
  machine,      \* device: check_npu_hardware_device; runtime: resolve_npu_
                \* paths found the library and the bitstream; vitis: the
                \* variable KAVACH_ENABLE_VITIS_AI is set
  initialized,  \* INITIALIZED
  initLock,     \* the thread that holds INIT_LOCK
  initPoison,   \* a thread panicked while it held INIT_LOCK
  loads,        \* history: how many times the library was loaded
  building,     \* for each builder, where it is
  session,      \* ort_session of each engine: a backend, or "None"
  lock,         \* for each engine, the thread that holds the session's mutex
  poison,       \* for each engine, whether that mutex is poisoned
  active,       \* active_inferences of each engine
  calling,      \* for each caller, where it is
  calls,        \* history: for each caller, the calls it has begun
  scored        \* history: for each caller, the calls it had answered

buildVars == <<initialized, initLock, initPoison, loads, building, session>>
callVars == <<lock, poison, active, calling, calls, scored>>
engineVars == <<machine, buildVars, callVars>>

EngineInit ==
  /\ machine \in Machines
  /\ initialized = FALSE /\ initLock = NoThread /\ initPoison = FALSE
  /\ loads = 0
  /\ building = [b \in Builders |-> "idle"]
  /\ session = [b \in Builders |-> "None"]
  /\ lock = [b \in Builders |-> NoThread]
  /\ poison = [b \in Builders |-> FALSE]
  /\ active = [b \in Builders |-> 0]
  /\ calling = [c \in Callers |-> "idle"]
  /\ calls = [c \in Callers |-> 0]
  /\ scored = [c \in Callers |-> 0]

-----------------------------------------------------------------------------
(* Construction.                                                           *)

Goto(b, where) == building' = [building EXCEPT ![b] = where]

\* The head of from_bytes: without the library there is nothing to load, and
\* init_ort_runtime returns at once when its flag is set.
New(b) ==
  /\ building[b] = "idle"
  /\ Goto(b, IF machine.runtime /\ ~initialized THEN "waiting" ELSE "cascade")
  /\ UNCHANGED <<machine, initialized, initLock, initPoison, loads, session,
                 callVars>>

\* Mutant of LockInit: the flag is not read again under the lock.
LockInitUnchecked(b) ==
  /\ building[b] = "waiting" /\ initLock = NoThread
  /\ IF initPoison
     THEN Goto(b, "cascade") /\ UNCHANGED initLock
     ELSE Goto(b, "loading") /\ initLock' = b
  /\ UNCHANGED <<machine, initialized, initPoison, loads, session, callVars>>

\* INIT_LOCK.lock(), and the second look at the flag.  The result of
\* init_ort_runtime is ignored, an error included.
LockInit(b) ==
  /\ building[b] = "waiting" /\ initLock = NoThread
  /\ IF initPoison \/ initialized
     THEN Goto(b, "cascade") /\ UNCHANGED initLock
     ELSE Goto(b, "loading") /\ initLock' = b
  /\ UNCHANGED <<machine, initialized, initPoison, loads, session, callVars>>

\* ort::init_from succeeds.
Load(b) ==
  /\ building[b] = "loading"
  /\ loads' = loads + 1
  /\ Goto(b, "loaded")
  /\ UNCHANGED <<machine, initialized, initLock, initPoison, session, callVars>>

\* INITIALIZED.store(true), and the guard is dropped.
StoreFlag(b) ==
  /\ building[b] = "loaded"
  /\ initialized' = TRUE
  /\ initLock' = NoThread
  /\ Goto(b, "cascade")
  /\ UNCHANGED <<machine, initPoison, loads, session, callVars>>

\* Mutant of LoadFails: the lock is not given back on the error path.
LoadFailsHolding(b) ==
  /\ building[b] = "loading"
  /\ Goto(b, "cascade")
  /\ UNCHANGED <<machine, initialized, initLock, initPoison, loads, session,
                 callVars>>

\* ort::init_from fails: the flag stays, so that the next thread tries again.
LoadFails(b) ==
  /\ building[b] = "loading"
  /\ initLock' = NoThread
  /\ Goto(b, "cascade")
  /\ UNCHANGED <<machine, initialized, initPoison, loads, session, callVars>>

\* ort::init_from panics.
LoadPanics(b) ==
  /\ building[b] = "loading"
  /\ initLock' = NoThread
  /\ initPoison' = TRUE
  /\ Goto(b, "dead")
  /\ UNCHANGED <<machine, initialized, loads, session, callVars>>

\* ort::init_from never returns, and INIT_LOCK is never given back.
LoadHangs(b) ==
  /\ building[b] = "loading"
  /\ Goto(b, "hung")
  /\ UNCHANGED <<machine, initialized, initLock, initPoison, loads, session,
                 callVars>>

\* The providers that from_bytes tries, in order; the first needs an opt-in.
Candidates ==
  (IF machine = [device |-> TRUE, runtime |-> TRUE, vitis |-> TRUE]
   THEN {"AmdXdnaNpu"} ELSE {})
    \cup {"DirectMlGpu", "NativeCpuBaseline"}

\* The cascade ends with the first provider that accepts the model, or none.
Cascade(b, backend) ==
  /\ building[b] = "cascade"
  /\ backend \in Candidates \cup {"None"}
  /\ session' = [session EXCEPT ![b] = backend]
  /\ Goto(b, "ready")
  /\ UNCHANGED <<machine, initialized, initLock, initPoison, loads, callVars>>

\* The runtime's wrapper panics, for instance since it has no library.
CascadePanics(b) ==
  /\ building[b] = "cascade"
  /\ Goto(b, "dead")
  /\ UNCHANGED <<machine, initialized, initLock, initPoison, loads, session,
                 callVars>>

\* Creating a session never returns; no lock is held.
CascadeHangs(b) ==
  /\ building[b] = "cascade"
  /\ Goto(b, "stalled")
  /\ UNCHANGED <<machine, initialized, initLock, initPoison, loads, session,
                 callVars>>

-----------------------------------------------------------------------------
(* Inference: run_io_inference, run_net_inference and run_audit_inference  *)
(* differ in the tensors they fill and in the score they return.           *)

CGoto(c, where) == calling' = [calling EXCEPT ![c] = where]

\* fetch_add, then the session if there is one.
Call(c) ==
  LET b == target[c] IN
  /\ calling[c] = "idle" /\ building[b] = "ready" /\ calls[c] < MaxCalls
  /\ calls' = [calls EXCEPT ![c] = @ + 1]
  /\ active' = [active EXCEPT ![b] = @ + 1]
  /\ CGoto(c, IF session[b] = "None" THEN "baseline" ELSE "waiting")
  /\ UNCHANGED <<machine, buildVars, lock, poison, scored>>

\* Mutant of LockSession: a poisoned mutex is waited for.
LockSessionPatient(c) ==
  LET b == target[c] IN
  /\ calling[c] = "waiting" /\ lock[b] = NoThread /\ ~poison[b]
  /\ CGoto(c, "running") /\ lock' = [lock EXCEPT ![b] = c]
  /\ UNCHANGED <<machine, buildVars, poison, active, calls, scored>>

\* self.session.lock(): a poisoned mutex leads to the baseline.
LockSession(c) ==
  LET b == target[c] IN
  /\ calling[c] = "waiting" /\ lock[b] = NoThread
  /\ IF poison[b]
     THEN CGoto(c, "baseline") /\ UNCHANGED lock
     ELSE CGoto(c, "running") /\ lock' = [lock EXCEPT ![b] = c]
  /\ UNCHANGED <<machine, buildVars, poison, active, calls, scored>>

\* The session ran: a score, or an error and the baseline.  The guard lives
\* until run_multi_head returns.
Run(c, ok) ==
  /\ calling[c] = "running"
  /\ lock' = [lock EXCEPT ![target[c]] = NoThread]
  /\ CGoto(c, IF ok THEN "idle" ELSE "baseline")
  /\ scored' = IF ok THEN [scored EXCEPT ![c] = @ + 1] ELSE scored
  /\ UNCHANGED <<machine, buildVars, poison, active, calls>>

\* session.run, or the look-up of an output that is missing, panics.
RunPanics(c) ==
  /\ calling[c] = "running"
  /\ lock' = [lock EXCEPT ![target[c]] = NoThread]
  /\ poison' = [poison EXCEPT ![target[c]] = TRUE]
  /\ CGoto(c, "dead")
  /\ UNCHANGED <<machine, buildVars, active, calls, scored>>

\* session.run never returns, and the session's mutex is never given back.
RunHangs(c) ==
  /\ calling[c] = "running"
  /\ CGoto(c, "hung")
  /\ UNCHANGED <<machine, buildVars, lock, poison, active, calls, scored>>

\* The baseline arithmetic always yields a score.
Baseline(c) ==
  /\ calling[c] = "baseline"
  /\ scored' = [scored EXCEPT ![c] = @ + 1]
  /\ CGoto(c, "idle")
  /\ UNCHANGED <<machine, buildVars, lock, poison, active, calls>>

Build(b) ==
  \/ New(b) \/ LockInit(b)
  \/ Load(b) \/ StoreFlag(b) \/ LoadFails(b) \/ LoadPanics(b) \/ LoadHangs(b)
  \/ \E backend \in Backends \cup {"None"} : Cascade(b, backend)
  \/ CascadePanics(b) \/ CascadeHangs(b)

Evaluate(c) ==
  \/ LockSession(c) \/ RunPanics(c) \/ RunHangs(c) \/ Baseline(c)
  \/ \E ok \in BOOLEAN : Run(c, ok)
=============================================================================
