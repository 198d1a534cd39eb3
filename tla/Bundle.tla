------------------------------- MODULE Bundle -------------------------------
(***************************************************************************)
(* The model bundle on disk: the packer that writes it (kavach-pack), the  *)
(* operator who deploys a release or edits the configuration, and the      *)
(* programs that verify it (verify_bundle_dir in manifest.rs, load_or_safe_*)
(* defaults in config.rs).                                                 *)
(*                                                                         *)
(* Nothing locks the directory.  A file is written by truncating it and    *)
(* filling it, so that a reader, or a crash, can meet it Torn; a bundle is *)
(* three files, so that a reader can meet files of two bundles.  A command *)
(* is the sequence of the steps that touch the disk; between two of them   *)
(* other processes run, and at each of them it may die or fail.            *)
(***************************************************************************)
EXTENDS Integers, Sequences

CONSTANTS
  Packers,      \* processes of the packer and of the operator
  Readers,      \* processes that open an NpuSession
  Releases,     \* manifests the holder of the pinned key has signed
  DevManifest,  \* the manifest of create_dev_bundle
  Configs,      \* contents of the configuration file that parse
  Absent,       \* there is no such file
  Torn,         \* contents that no parser accepts
  MaxCommands   \* bound on the commands run

Pinned == 0     \* PINNED_REFERENCE_PUBLIC_KEY; generated keys are 1, 2, ...

\* A hex file torn after 32 of its 64 digits is taken for a raw key: one that
\* nobody generated and that has no other half.
MangledSecret == MaxCommands + 1
MangledPublic == MaxCommands + 2

Manifests == Releases \cup {DevManifest}
Models == {m.model : m \in Manifests}
Processes == Packers \cup Readers

\* What the file of the manifest may hold.  Neither an absent file nor a torn
\* one is a signature of any of it.
ManifestContents == Manifests \cup {Absent, Torn}

ASSUME BundleAssumption ==
  /\ \A m \in Manifests : m.major \in Nat /\ m.generation \in Nat
  /\ \A c \in Configs : c.minimum \in Nat
  /\ Absent \notin Manifests \cup Models \cup Configs \cup Nat
  /\ Torn \notin Manifests \cup Models \cup Configs \cup Nat
  /\ Absent \notin Nat \X ManifestContents /\ Torn \notin Nat \X ManifestContents
  /\ Absent # Torn /\ MaxCommands \in Nat
  /\ Packers \cap Readers = {}

\* The version and the generation that create_dev_bundle writes.
ASSUME DevManifestAssumption ==
  DevManifest.major = 1 /\ DevManifest.generation = 1

PrivateFiles == {"sign.key", "sign.key.hex", "dev_root.key"}
PublicFiles  == {"pub.key", "pub.key.hex", "dev_root.pub", "dev_root.pub.hex"}
HexFiles     == {"sign.key.hex", "pub.key.hex", "dev_root.pub.hex"}
Files == PrivateFiles \cup PublicFiles \cup {"onnx", "manifest", "sig", "config"}

VARIABLES
  files,     \* the contents of each file
  prog,      \* for each process, the steps it has still to take
  regs,      \* for each process, what it holds in memory
  outcome,   \* for each process, how its last command ended
  signed,    \* history: the pairs of key and manifest that were signed
  keys,      \* history: the number of keys generated
  commands,  \* history: the number of commands begun
  alone      \* history: nothing was written by others, and no step failed,
             \* since the process began its command

bundleVars ==
  <<files, prog, regs, outcome, signed, keys, commands, alone>>

-----------------------------------------------------------------------------
(* The commands as sequences of steps.                                     *)

\* fs::write: open with truncation, then write_all.
Write(f) == << <<"truncate", f>>, <<"fill", f>> >>

\* verify_bundle_dir
VerifyBundleDir ==
  << <<"read", "manifest">>, <<"read", "sig">>, <<"parse", "manifest">>,
     <<"read", "onnx">>, <<"judge", "manifest">> >>

KeygenSteps ==
  Write("sign.key") \o Write("sign.key.hex")
    \o Write("pub.key") \o Write("pub.key.hex")

StubOnnxSteps == Write("onnx")

SignSteps(keyFile) ==
  << <<"read", keyFile>>, <<"read", "manifest">>, <<"parse", "manifest">>,
     <<"sign", "sig">> >> \o Write("sig")

\* Without --pubkey the pinned key is used.
VerifySteps(pubFile) ==
  (IF pubFile \in PublicFiles THEN << <<"read", pubFile>> >> ELSE <<>>)
    \o VerifyBundleDir

\* Mutant of InitDevSteps: an existing model is kept.
InitDevStepsKeepingModel ==
  Write("dev_root.key") \o Write("dev_root.pub") \o Write("dev_root.pub.hex")
    \o (IF files["onnx"] = Absent THEN Write("onnx") ELSE <<>>)
    \o Write("manifest")
    \o << <<"sign", "sig">> >> \o Write("sig") \o VerifyBundleDir

InitDevSteps ==
  Write("dev_root.key") \o Write("dev_root.pub") \o Write("dev_root.pub.hex")
    \o Write("onnx") \o Write("manifest")
    \o << <<"sign", "sig">> >> \o Write("sig") \o VerifyBundleDir

\* The operator copies a release into place.
DeploySteps == Write("manifest") \o Write("sig") \o Write("onnx")

-----------------------------------------------------------------------------
(* What the checks decide.                                                 *)

\* Mutant of Verdict: a generation must exceed the minimum.
VerdictStrict(r) ==
  IF r.manifest.major # 1 THEN "ManifestSchemaInvalid"
  ELSE IF r.manifest.generation <= r.min THEN "RollbackRejected"
  ELSE IF r.sig # <<r.vkey, r.manifest>> THEN "ManifestSignatureInvalid"
  ELSE IF r.onnx # r.manifest.model THEN "OnnxHashMismatch"
  ELSE "Ok"

\* verify_manifest_and_onnx, on a manifest that parses.  A signature is the
\* pair of the key and the manifest it was made for; decode_base64 undoes
\* encode_base64, and a torn text is not 64 bytes.  Digests do not collide.
Verdict(r) ==
  IF r.manifest.major # 1 THEN "ManifestSchemaInvalid"
  ELSE IF r.manifest.generation < r.min THEN "RollbackRejected"
  ELSE IF r.sig # <<r.vkey, r.manifest>> THEN "ManifestSignatureInvalid"
  ELSE IF r.onnx # r.manifest.model THEN "OnnxHashMismatch"
  ELSE "Ok"

\* KavachConfig::validate
Valid(c) ==
  /\ c.major = 1 /\ c.evidence # 0
  /\ c.ttl \in 60 .. 86400
  /\ c.window \in 10 .. 250
  /\ c.uncertainty \in 1 .. 50
  /\ c.interval = 30 /\ c.stale = 90

\* safe_defaults, as far as it matters here
DefaultMinimum == 0

\* The minima that a torn file may ask for.  Every section and every field but
\* the version has a default, so that the first lines of a file parse by
\* themselves; a number at the cut keeps its first digits.
CutMinima ==
  {DefaultMinimum} \cup
    UNION {{n \in 0 .. c.minimum :
              \E k \in 0 .. c.minimum : n = c.minimum \div 10^k} :
             c \in Configs}

\* load_or_safe_defaults: the rollback minima that may be in force.
LoadOrSafeDefaults(content) ==
  IF content = Torn THEN CutMinima
  ELSE IF content \in Configs /\ Valid(content) THEN {content.minimum}
  ELSE {DefaultMinimum}

-----------------------------------------------------------------------------
NoRegs ==
  [key |-> Absent, vkey |-> Pinned, min |-> DefaultMinimum, configured |-> FALSE,
   manifest |-> Absent, sig |-> Absent, onnx |-> Absent, config |-> Absent]

\* A directory with a release in it, or none.
BundleInit ==
  /\ files \in
       {[f \in Files |-> Absent]} \cup
       {[[f \in Files |-> Absent] EXCEPT
           !["manifest"] = m, !["sig"] = <<Pinned, m>>, !["onnx"] = m.model,
           !["config"] = c] : m \in Releases,
                                c \in Configs \cup {Absent}}
  /\ prog = [p \in Processes |-> <<>>]
  /\ regs = [p \in Processes |-> NoRegs]
  /\ outcome = [p \in Processes |-> "None"]
  /\ signed = {<<Pinned, m>> : m \in Releases}
  /\ keys = 0 /\ commands = 0
  /\ alone = [p \in Processes |-> FALSE]

\* Process p begins a command with what it holds in memory at first.
Begin(p, steps, r) ==
  /\ prog[p] = <<>> /\ commands < MaxCommands
  /\ prog' = [prog EXCEPT ![p] = steps]
  /\ regs' = [regs EXCEPT ![p] = r]
  /\ outcome' = [outcome EXCEPT ![p] = "Running"]
  /\ alone' = [alone EXCEPT ![p] = TRUE]
  /\ commands' = commands + 1
  /\ UNCHANGED <<files, signed>>

FreshKey == keys' = keys + 1

\* cmd_keygen
Keygen(p) ==
  /\ FreshKey
  /\ Begin(p, KeygenSteps, [NoRegs EXCEPT !.key = keys', !.vkey = keys'])

\* cmd_stub_onnx
StubOnnx(p) ==
  /\ UNCHANGED keys
  /\ Begin(p, StubOnnxSteps, [NoRegs EXCEPT !.onnx = DevManifest.model])

\* cmd_sign
Sign(p, keyFile) ==
  /\ UNCHANGED keys
  /\ Begin(p, SignSteps(keyFile), NoRegs)

\* cmd_verify; the minimum is 1 unless --rollback says otherwise.
Verify(p, pubFile) ==
  /\ UNCHANGED keys
  /\ Begin(p, VerifySteps(pubFile), [NoRegs EXCEPT !.min = 1])

\* cmd_init_dev, create_dev_bundle
InitDev(p) ==
  /\ FreshKey
  /\ Begin(p, InitDevSteps,
       [NoRegs EXCEPT !.key = keys', !.vkey = keys', !.min = 1,
          !.onnx = DevManifest.model, !.manifest = DevManifest])

\* The operator deploys a release of the holder of the pinned key.
Deploy(p, m) ==
  /\ UNCHANGED keys
  /\ Begin(p, DeploySteps,
       [NoRegs EXCEPT !.manifest = m, !.sig = <<Pinned, m>>, !.onnx = m.model])

\* The operator edits the configuration file.
Configure(p, c) ==
  /\ UNCHANGED keys
  /\ Begin(p, Write("config"), [NoRegs EXCEPT !.config = c])

\* NpuSession::from_config with the pinned key, under the safe defaults (as
\* main does) or under a configuration that is read first; once per process.
Open(p, configured) ==
  /\ outcome[p] = "None"
  /\ UNCHANGED keys
  /\ Begin(p, (IF configured THEN << <<"load", "config">> >> ELSE <<>>)
                \o VerifyBundleDir,
       [NoRegs EXCEPT !.configured = configured])

-----------------------------------------------------------------------------
\* The register that a file is read into and filled from.
Register(f) ==
  IF f \in PrivateFiles THEN "key" ELSE IF f \in PublicFiles THEN "vkey" ELSE f

At(p, op) == prog[p] # <<>> /\ Head(prog[p])[1] = op
Target(p) == Head(prog[p])[2]
Advance(p) == prog' = [prog EXCEPT ![p] = Tail(prog[p])]

Finish(p, how) ==
  /\ prog' = [prog EXCEPT ![p] = <<>>]
  /\ outcome' = [outcome EXCEPT ![p] = how]

\* Mutant of Proceed: the end of the command is not noticed.
ProceedSilently(p) == Advance(p) /\ UNCHANGED outcome

\* A command whose steps are all taken has succeeded.
Proceed(p) ==
  /\ Advance(p)
  /\ outcome' = IF Len(prog[p]) = 1 THEN [outcome EXCEPT ![p] = "Ok"]
                ELSE outcome

\* File f gets new contents from process p; others are no longer alone.
PutFile(p, f, content) ==
  /\ files' = [files EXCEPT ![f] = content]
  /\ alone' = [q \in Processes |-> q = p /\ alone[p]]

Truncate(p) ==
  /\ At(p, "truncate")
  /\ PutFile(p, Target(p), Torn)
  /\ Proceed(p)
  /\ UNCHANGED <<regs, signed, keys, commands>>

Fill(p) ==
  /\ At(p, "fill")
  /\ PutFile(p, Target(p), regs[p][Register(Target(p))])
  /\ Proceed(p)
  /\ UNCHANGED <<regs, signed, keys, commands>>

\* What is missing, and a key file of the wrong length, ends the command.
Unreadable(f) ==
  \/ files[f] = Absent
  \/ files[f] = Torn /\ f \in PrivateFiles \cup PublicFiles

\* What a read may return: load_signing_key and load_verifying_key look at the
\* length of a file before they try it as hex.
Readings(f) ==
  IF ~Unreadable(f) THEN {files[f]}
  ELSE IF files[f] = Torn /\ f \in HexFiles
  THEN {IF f \in PrivateFiles THEN MangledSecret ELSE MangledPublic}
  ELSE {}

ReadFails(p) ==
  /\ At(p, "read") /\ Unreadable(Target(p))
  /\ Finish(p, "BundleMissing")
  /\ UNCHANGED <<files, regs, signed, keys, commands, alone>>

Read(p) ==
  /\ At(p, "read")
  /\ \E x \in Readings(Target(p)) :
       regs' = [regs EXCEPT ![p][Register(Target(p))] = x]
  /\ Proceed(p)
  /\ UNCHANGED <<files, signed, keys, commands, alone>>

LoadConfig(p) ==
  /\ At(p, "load")
  /\ \E n \in LoadOrSafeDefaults(files["config"]) :
       regs' = [regs EXCEPT ![p].min = n]
  /\ Proceed(p)
  /\ UNCHANGED <<files, signed, keys, commands, alone>>

\* serde_json::from_slice(&manifest_bytes)
Parse(p) ==
  /\ At(p, "parse")
  /\ IF regs[p].manifest = Torn THEN Finish(p, "ManifestSchemaInvalid")
     ELSE Proceed(p)
  /\ UNCHANGED <<files, regs, signed, keys, commands, alone>>

SignManifest(p) ==
  /\ At(p, "sign")
  /\ regs' = [regs EXCEPT ![p].sig = <<regs[p].key, regs[p].manifest>>]
  /\ signed' = signed \cup {<<regs[p].key, regs[p].manifest>>}
  /\ Proceed(p)
  /\ UNCHANGED <<files, keys, commands, alone>>

\* Mutant of Judge: the model is hashed as it is on disk by then.
JudgeLate(p) ==
  /\ At(p, "judge")
  /\ Finish(p, Verdict([regs[p] EXCEPT !.onnx = files["onnx"]]))
  /\ UNCHANGED <<files, regs, signed, keys, commands, alone>>

Judge(p) ==
  /\ At(p, "judge")
  /\ Finish(p, Verdict(regs[p]))
  /\ UNCHANGED <<files, regs, signed, keys, commands, alone>>

\* The process dies, or a file operation fails; what it wrote stays.  The
\* verification reports every error of a read as a missing bundle.
Abort(p) ==
  /\ prog[p] # <<>>
  /\ Finish(p, IF At(p, "read") THEN "BundleMissing" ELSE "Aborted")
  /\ alone' = [alone EXCEPT ![p] = FALSE]
  /\ UNCHANGED <<files, regs, signed, keys, commands>>

Step(p) ==
  \/ Truncate(p) \/ Fill(p) \/ ReadFails(p) \/ Read(p) \/ LoadConfig(p)
  \/ Parse(p) \/ SignManifest(p) \/ Judge(p)

Command(p) ==
  \/ Keygen(p) \/ StubOnnx(p) \/ InitDev(p)
  \/ \E f \in PrivateFiles : Sign(p, f)
  \/ \E f \in PublicFiles \cup {"pinned"} : Verify(p, f)
  \/ \E m \in Releases : Deploy(p, m)
  \/ \E c \in Configs : Configure(p, c)

BundleNext ==
  \/ \E p \in Packers : Command(p)
  \/ \E p \in Readers, configured \in BOOLEAN : Open(p, configured)
  \/ \E p \in Processes : Step(p) \/ Abort(p)

BundleSpec == BundleInit /\ [][BundleNext]_bundleVars

-----------------------------------------------------------------------------
BundleTypeOK ==
  /\ DOMAIN files = Files
  /\ \A p \in Processes :
       /\ outcome[p] \in {"None", "Running", "Ok", "Aborted", "BundleMissing",
            "ManifestSchemaInvalid", "ManifestSignatureInvalid",
            "RollbackRejected", "OnnxHashMismatch"}
       /\ prog[p] = <<>> <=> outcome[p] # "Running"
       /\ regs[p].key \in (1 .. keys) \cup {Absent, MangledSecret}
       /\ regs[p].vkey \in (0 .. keys) \cup {MangledPublic}
  /\ keys <= commands /\ commands <= MaxCommands

\* NpuState: Active only with a verified manifest.
IsActive(r)   == outcome[r] = "Ok"
IsDegraded(r) == outcome[r] \notin {"None", "Running", "Aborted", "Ok"}

\* The bundle on disk is what verify_bundle_dir is meant to accept.
BundleGood(key, min) ==
  /\ files["manifest"] \in Manifests
  /\ files["manifest"].major = 1 /\ files["manifest"].generation >= min
  /\ files["sig"] = <<key, files["manifest"]>>
  /\ files["onnx"] = files["manifest"].model

\* There is no configuration on disk, or a valid one.
ConfigIntact ==
  \/ files["config"] = Absent
  \/ files["config"] \in Configs /\ Valid(files["config"])

\* The minimum that an intact configuration asks for.
MinimumOnDisk ==
  IF files["config"] \in Configs THEN files["config"].minimum ELSE 0

\* A session opened while nothing else was written is Active only on a released
\* bundle, whatever earlier writers left half done; and if the configuration it
\* loads is intact, exactly when that bundle meets the configured minimum: no
\* good bundle is refused and none below the minimum accepted (from_config).
SoleReaderIsExact ==
  \A r \in Readers :
    (alone[r] /\ prog[r] = <<>>) =>
      /\ IsActive(r) => BundleGood(Pinned, 0)
      /\ ~regs[r].configured => (IsActive(r) <=> BundleGood(Pinned, 0))
      /\ regs[r].configured /\ ConfigIntact =>
           (IsActive(r) <=> BundleGood(Pinned, MinimumOnDisk))

\* A session that loads its configuration is never Active on a generation below
\* what every configuration of the operator asks for
\* (docs/config-schema.md:31: a configuration that fails to load leaves the
\* "model rollback/keyring policy at the installed baseline").
RollbackPolicyKept ==
  \A r \in Readers :
    (IsActive(r) /\ regs[r].configured) =>
      \E c \in Configs : regs[r].manifest.generation >= c.minimum

\* init-dev recovers from anything: run by itself to its end it leaves a bundle
\* that verifies under its new key, even after commands that died half way
\* (create_dev_bundle).
InitDevRepairs ==
  \A p \in Packers :
    (/\ alone[p] /\ prog[p] = <<>>
     /\ regs[p].key # Absent /\ regs[p].vkey = regs[p].key
     /\ regs[p].manifest # Absent)
      => outcome[p] = "Ok" /\ BundleGood(regs[p].vkey, 1)
=============================================================================
