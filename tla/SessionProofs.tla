---------------------------- MODULE SessionProofs ---------------------------
(***************************************************************************)
(* Proofs about Session, for any number of threads, callers and commands:  *)
(* the one load of the runtime, the mutual exclusion of the two mutexes,   *)
(* and that only a verified release is ever evaluated.                     *)
(***************************************************************************)
EXTENDS Session, BundleProofs

USE DEF Processes, Pinned

Stages ==
  {"idle", "waiting", "loading", "loaded", "hung", "cascade", "stalled",
   "ready", "dead"}
CallStages == {"idle", "waiting", "running", "hung", "baseline", "dead"}

\* The runtime.  One thread holds INIT_LOCK while it loads; what it loaded is
\* on record once the flag is set, or while that thread is still there to set it.
LoadInv ==
  /\ building \in [Builders -> Stages]
  /\ session \in [Builders -> Backends \cup {"None"}]
  /\ loads \in {0, 1} /\ initialized \in BOOLEAN
  /\ initLock \in Builders \cup {NoThread}
  /\ \A b \in Builders :
       initLock = b <=> building[b] \in {"loading", "loaded", "hung"}
  /\ \A b \in Builders : building[b] = "loading" => loads = 0 /\ ~initialized
  /\ loads = 1 => initialized \/ \E b \in Builders : building[b] = "loaded"

\* The mutex of each session.
CallInv ==
  /\ calling \in [Callers -> CallStages]
  /\ lock \in [Builders -> Callers \cup {NoThread}]
  /\ \A c \in Callers :
       lock[target[c]] = c <=> calling[c] \in {"running", "hung"}

\* The counters; a session that was Active has never been degraded.
CountInv ==
  /\ active \in [Builders -> Nat]
  /\ calls \in [Callers -> Nat] /\ refused \in [Callers -> Nat]
  /\ \A b \in Builders : active[b] > 0 => IsActive(b)
  /\ \A c \in Callers : calls[c] > 0 => IsActive(target[c])
  /\ \A c \in Callers : refused[c] > 0 => IsDegraded(target[c])
  /\ \A c \in Callers : calls[c] + refused[c] <= MaxCalls

LEMMA LoadInit == SessionInit => LoadInv
<1> SUFFICES ASSUME SessionInit PROVE LoadInv
  OBVIOUS
<1>1. /\ building = [b \in Builders |-> "idle"]
      /\ session = [b \in Builders |-> "None"]
      /\ loads = 0 /\ initialized = FALSE /\ initLock = NoThread
  BY DEF SessionInit, EngineInit
<1>2. \A b \in Builders : initLock # b /\ building[b] = "idle"
  BY <1>1, EngineAssumption
<1>3. initialized \in BOOLEAN /\ initLock \in Builders \cup {NoThread}
  BY <1>1
<1>4. building \in [Builders -> Stages]
  BY <1>1 DEF Stages
<1>5. session \in [Builders -> Backends \cup {"None"}]
  BY <1>1
<1>6. \A b \in Builders : building[b] \notin {"loading", "loaded", "hung"}
  BY <1>2
<1>7. loads \in {0, 1} /\ loads # 1
  BY <1>1
<1> QED
  BY <1>2, <1>3, <1>4, <1>5, <1>6, <1>7 DEF LoadInv

LEMMA CallInit == SessionInit => CallInv
  BY EngineAssumption DEF SessionInit, EngineInit, CallInv, CallStages

LEMMA CountInit == SessionInit => CountInv
  BY EngineAssumption DEF SessionInit, EngineInit, CountInv

LEMMA BuildLoad ==
  ASSUME LoadInv, NEW b \in Builders, Build(b)
  PROVE  LoadInv'
<1> USE EngineAssumption DEF LoadInv, Stages, Goto
<1>1. CASE New(b)
  BY <1>1 DEF New
<1>2. CASE LockInit(b)
  BY <1>2 DEF LockInit
<1>3. CASE Load(b)
  BY <1>3 DEF Load
<1>4. CASE StoreFlag(b)
  BY <1>4 DEF StoreFlag
<1>5. CASE LoadFails(b)
  BY <1>5 DEF LoadFails
<1>6. CASE LoadPanics(b)
  BY <1>6 DEF LoadPanics
<1>7. CASE \E backend \in Backends \cup {"None"} : Cascade(b, backend)
  BY <1>7 DEF Cascade
<1>8. CASE CascadePanics(b) \/ CascadeHangs(b)
  BY <1>8 DEF CascadePanics, CascadeHangs
<1>9. CASE LoadHangs(b)
  BY <1>9 DEF LoadHangs
<1> QED
  BY <1>1, <1>2, <1>3, <1>4, <1>5, <1>6, <1>7, <1>8, <1>9 DEF Build

LEMMA EvaluateCall ==
  ASSUME CallInv, NEW c \in Callers, Call(c) \/ Evaluate(c)
  PROVE  CallInv'
<1> USE EngineAssumption DEF CallInv, CallStages, CGoto
<1>1. CASE Call(c)
  BY <1>1 DEF Call
<1>2. CASE LockSession(c)
  BY <1>2 DEF LockSession
<1>3. CASE RunPanics(c)
  BY <1>3 DEF RunPanics
<1>4. CASE Baseline(c)
  BY <1>4 DEF Baseline
<1>5. CASE \E ok \in BOOLEAN : Run(c, ok)
  BY <1>5 DEF Run
<1>6. CASE RunHangs(c)
  BY <1>6 DEF RunHangs
<1> QED
  BY <1>1, <1>2, <1>3, <1>4, <1>5, <1>6 DEF Evaluate

\* A session that is open stays as it is: it is opened once, and packers are
\* other processes.
LEMMA OpenStays ==
  ASSUME Inv, NEW r \in Readers, outcome[r] \notin {"None", "Running"},
         [BundleNext]_bundleVars
  PROVE  UNCHANGED <<outcome[r], regs[r]>>
<1>0. prog[r] = <<>>
  BY DEF Inv, ProgInv
<1>1. CASE UNCHANGED bundleVars
  BY <1>1 DEF bundleVars
<1>2. ASSUME NEW p \in Processes, NEW steps, NEW x, Begin(p, steps, x), p # r
      PROVE  UNCHANGED <<outcome[r], regs[r]>>
  BY <1>2 DEF Begin, Inv, DataInv, ProgInv
<1>3. CASE \E p \in Packers : Command(p)
  BY <1>2, <1>3, BundleAssumption DEF Command, Keygen, StubOnnx, InitDev, Sign,
     Verify, Deploy, Configure
<1>4. CASE \E p \in Readers, c \in BOOLEAN : Open(p, c)
  BY <1>2, <1>4 DEF Open
<1>5. CASE \E p \in Processes : Step(p) \/ Abort(p)
  <2>1. PICK p \in Processes : Step(p) \/ Abort(p)
    BY <1>5
  <2>2. p # r
    BY <1>0, <2>1 DEF Step, Truncate, Fill, ReadFails, Read, LoadConfig, Parse,
       SignManifest, Judge, At, Abort
  <2> QED
    BY <2>1, <2>2 DEF Step, Truncate, Fill, ReadFails, Read, LoadConfig, Parse,
       SignManifest, Judge, Abort, Proceed, Advance, Finish, Inv, DataInv, ProgInv
<1> QED
  BY <1>1, <1>3, <1>4, <1>5 DEF BundleNext

LEMMA SessionBundle ==
  ASSUME [SessionNext]_sessionVars
  PROVE  [BundleNext]_bundleVars
  BY DEF SessionNext, sessionVars, BuildEngine, EvaluateHead, RefuseHead

LEMMA LoadNext ==
  ASSUME LoadInv, [SessionNext]_sessionVars
  PROVE  LoadInv'
<1>1. CASE \E r \in Readers : BuildEngine(r)
  BY <1>1, BuildLoad, SessionAssumption DEF BuildEngine
<1>2. CASE UNCHANGED buildVars
  BY <1>2 DEF buildVars, LoadInv
<1> QED
  BY <1>1, <1>2 DEF SessionNext, sessionVars, engineVars, EvaluateHead,
     RefuseHead, Evaluate, Call, LockSession, RunPanics, RunHangs, Baseline, Run

LEMMA CallNext ==
  ASSUME CallInv, [SessionNext]_sessionVars
  PROVE  CallInv'
<1>1. CASE \E c \in Callers : EvaluateHead(c) \/ Evaluate(c)
  BY <1>1, EvaluateCall DEF EvaluateHead
<1>2. CASE UNCHANGED callVars
  BY <1>2 DEF callVars, CallInv
<1> QED
  BY <1>1, <1>2 DEF SessionNext, sessionVars, engineVars, RefuseHead,
     BuildEngine, Build, New, LockInit, Load, StoreFlag, LoadFails, LoadPanics,
     LoadHangs, Cascade, CascadePanics, CascadeHangs

LEMMA CountNext ==
  ASSUME Inv, CountInv, [SessionNext]_sessionVars
  PROVE  CountInv'
<1> USE EngineAssumption, SessionAssumption
<1>0. \A r \in Readers : /\ IsActive(r) => IsActive(r)'
                         /\ IsDegraded(r) => IsDegraded(r)'
  BY SessionBundle, OpenStays DEF IsActive, IsDegraded
<1>1. \A c \in Callers : target[c] \in Readers
  OBVIOUS
<1>2. CASE \E c \in Callers : EvaluateHead(c)
  <2>1. PICK c \in Callers : EvaluateHead(c)
    BY <1>2
  <2> DEFINE b == target[c]
  <2>2. /\ calls[c] < MaxCalls /\ refused' = refused
        /\ calls' = [calls EXCEPT ![c] = @ + 1]
        /\ active' = [active EXCEPT ![b] = @ + 1]
        /\ IsActive(b)
    BY <2>1 DEF EvaluateHead, Call
  <2>3. refused[c] = 0
    BY <2>2 DEF CountInv, IsActive, IsDegraded
  <2> QED
    BY <1>0, <1>1, <2>2, <2>3 DEF CountInv
<1>3. CASE \E c \in Callers : RefuseHead(c)
  <2>1. PICK c \in Callers : RefuseHead(c)
    BY <1>3
  <2>2. /\ calls[c] + refused[c] < MaxCalls
        /\ refused' = [refused EXCEPT ![c] = @ + 1]
        /\ calls' = calls /\ active' = active /\ IsDegraded(target[c])
    BY <2>1 DEF RefuseHead, engineVars, callVars
  <2> QED
    BY <1>0, <1>1, <2>2 DEF CountInv
<1>4. CASE UNCHANGED <<active, calls, refused>>
  BY <1>0, <1>1, <1>4 DEF CountInv
<1> QED
  BY <1>2, <1>3, <1>4 DEF SessionNext, sessionVars, engineVars, callVars,
     BuildEngine, Build, New, LockInit, Load, StoreFlag, LoadFails, LoadPanics,
     LoadHangs, Cascade, CascadePanics, CascadeHangs, Evaluate, LockSession,
     RunPanics, RunHangs, Baseline, Run

\* Whatever fails, panics or hangs, each of the two mutexes has at most the
\* holder that is in its critical section, and no session has ever both scored
\* and refused (init_ort_runtime, run_multi_head, evaluate_*_head).
THEOREM SessionTypes == SessionSpec => []SessionTypeOK
<1>1. LoadInv /\ CallInv /\ CountInv => SessionTypeOK
  BY DEF LoadInv, CallInv, CountInv, SessionTypeOK
<1>2. SessionInit => Inv
  BY InitInv DEF SessionInit
<1>3. Inv /\ [SessionNext]_sessionVars => Inv'
  BY SessionBundle, NextInv
<1> QED
  BY <1>1, <1>2, <1>3, LoadInit, LoadNext, CallInit, CallNext, CountInit,
     CountNext, PTL DEF SessionSpec

\* The library is loaded at most once, by any number of threads of which any
\* may fail, panic or hang (init_ort_runtime).
THEOREM LoadedOnce == SessionSpec => []RuntimeLoadedOnce
<1>1. LoadInv => RuntimeLoadedOnce
  BY DEF LoadInv, RuntimeLoadedOnce
<1> QED
  BY <1>1, LoadInit, LoadNext, PTL DEF SessionSpec

\* Whatever any number of packers write, tear or replace meanwhile, a session
\* that has computed anything holds one released bundle (verify_bundle_dir).
THEOREM OnlyReleasesScored == SessionSpec => []ScoresNeedRelease
<1>1. ASSUME Inv, SigInv, AllReaders, CountInv
      PROVE  ScoresNeedRelease
  <2> SUFFICES ASSUME NEW r \in Readers, active[r] > 0
               PROVE  /\ regs[r].manifest \in Releases
                      /\ regs[r].onnx = regs[r].manifest.model
                      /\ regs[r].manifest.generation >= regs[r].min
    BY DEF ScoresNeedRelease
  <2>1. outcome[r] = "Ok"
    BY <1>1, SessionAssumption DEF CountInv, IsActive
  <2>2. Verdict(regs[r]) = "Ok" /\ regs[r].vkey = Pinned
    BY <1>1, <2>1 DEF AllReaders, ReaderInv, HoldsInv
  <2>3. regs[r].min \in Nat /\ regs[r].manifest \in ManifestContents
    BY <1>1 DEF Inv, DataInv, RegsType, RegsOf
  <2>4. regs[r].sig = <<Pinned, regs[r].manifest>>
    BY <2>2 DEF Verdict
  <2>5. regs[r].manifest \in Releases
    BY <1>1, <2>3, <2>4 DEF SigInv, Genuine
  <2>6. regs[r].manifest.generation \in Nat
    BY <2>5, BundleAssumption DEF Manifests
  <2> QED
    BY <2>2, <2>3, <2>5, <2>6 DEF Verdict
<1>2. SessionInit => Inv /\ SigInv /\ AllReaders
  BY InitInv, InitSig, InitReader DEF SessionInit, AllReaders
<1>3. Inv /\ SigInv /\ AllReaders /\ [SessionNext]_sessionVars
        => Inv' /\ SigInv' /\ AllReaders'
  BY SessionBundle, NextInv, NextSig, NextReader
<1> QED
  BY <1>1, <1>2, <1>3, CountInit, CountNext, PTL DEF SessionSpec
=============================================================================
