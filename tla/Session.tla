------------------------------- MODULE Session ------------------------------
(***************************************************************************)
(* NpuSession (npu.rs): a bundle that is verified while the packer and the *)
(* operator change it, and the engine built for the session and used by    *)
(* its clones.  Readers of the bundle are the builders of the engines.     *)
(***************************************************************************)
EXTENDS Bundle, Engine

ASSUME SessionAssumption == Builders = Readers

VARIABLE refused  \* history: the evaluations answered with DegradedObserver

sessionVars == <<bundleVars, engineVars, refused>>

SessionInit == BundleInit /\ EngineInit /\ refused = [c \in Callers |-> 0]

\* from_config goes on to new_active or to new_degraded: an engine either way.
BuildEngine(r) ==
  /\ IsActive(r) \/ IsDegraded(r)
  /\ Build(r)
  /\ UNCHANGED <<bundleVars, refused>>

\* evaluate_io_head, evaluate_net_head and evaluate_audit_head
EvaluateHead(c) ==
  /\ IsActive(target[c])
  /\ Call(c)
  /\ UNCHANGED <<bundleVars, refused>>

\* The same when the session is degraded: the reason is the answer.
RefuseHead(c) ==
  /\ IsDegraded(target[c]) /\ building[target[c]] = "ready"
  /\ calls[c] + refused[c] < MaxCalls
  /\ refused' = [refused EXCEPT ![c] = @ + 1]
  /\ UNCHANGED <<bundleVars, engineVars>>

SessionNext ==
  \/ BundleNext /\ UNCHANGED <<engineVars, refused>>
  \/ \E r \in Readers : BuildEngine(r)
  \/ \E c \in Callers :
       \/ EvaluateHead(c) \/ RefuseHead(c)
       \/ Evaluate(c) /\ UNCHANGED <<bundleVars, refused>>

\* Threads are scheduled: a reader that has begun goes on, and so do the
\* construction of an engine and a call that has begun, unless the runtime
\* hangs, which is a step of the thread after which it has none.
SessionFairness ==
  /\ \A r \in Readers : /\ WF_sessionVars(Step(r) /\ UNCHANGED
                                            <<engineVars, refused>>)
                        /\ WF_sessionVars(BuildEngine(r))
  /\ \A c \in Callers : WF_sessionVars(Evaluate(c) /\ UNCHANGED
                                         <<bundleVars, refused>>)

SessionSpec ==
  SessionInit /\ [][SessionNext]_sessionVars /\ SessionFairness

-----------------------------------------------------------------------------
SessionTypeOK ==
  /\ initLock \in Builders \cup {NoThread}
  /\ \A b \in Builders :
       initLock = b <=> building[b] \in {"loading", "loaded", "hung"}
  /\ \A c \in Callers :
       lock[target[c]] = c <=> calling[c] \in {"running", "hung"}
  /\ session \in [Builders -> Backends \cup {"None"}]
  /\ \A c \in Callers : calls[c] + refused[c] <= MaxCalls

\* Whatever is written, torn or replaced while it reads the bundle, a session
\* that has computed anything holds a manifest that the pinned key signed, of a
\* sufficient generation, and read the very model that manifest names: files of
\* two bundles are never taken for one (verify_bundle_dir, evaluate_*_head).
ScoresNeedRelease ==
  \A r \in Readers :
    active[r] > 0 => /\ regs[r].manifest \in Releases
                     /\ regs[r].onnx = regs[r].manifest.model
                     /\ regs[r].manifest.generation >= regs[r].min

\* The library is loaded at most once per process, by whichever thread comes
\* first and although loads fail and threads panic (init_ort_runtime).
RuntimeLoadedOnce == loads <= 1

\* Only a call of the runtime that never returns makes a thread wait for ever,
\* and only those that want the mutex it holds: a session that was opened gets
\* its engine, and every evaluation that has begun gets a score, unless a panic
\* ended the very thread; errors, poisoned mutexes, panics of others and hangs
\* on other mutexes do not block it (init_ort_runtime, run_multi_head).
NoThreadStuck ==
  /\ \A b \in Builders :
       (outcome[b] = "Running") ~>
         \/ outcome[b] = "Aborted"
         \/ building[b] \in {"ready", "dead", "stalled"}
         \/ \E d \in Builders : building[d] = "hung"
  /\ \A c \in Callers :
       (calls[c] > scored[c]) ~>
         \/ calls[c] = scored[c] \/ calling[c] = "dead"
         \/ \E d \in Callers : target[d] = target[c] /\ calling[d] = "hung"

\* Every evaluation that has begun gets a score unless a panic ended the thread,
\* also when the hardware hangs (docs/npu-integration.md:147: "If the NPU
\* hardware hangs, times out [...] the NpuSession automatically [...] falls back
\* to the SIMD CPU baseline").
HangsFallBack ==
  \A c \in Callers :
    (calls[c] > scored[c]) ~> (calls[c] = scored[c] \/ calling[c] = "dead")
=============================================================================
