---------------------------- MODULE BundleProofs ----------------------------
(***************************************************************************)
(* Proofs about Bundle, for any number of packers, readers and releases.   *)
(***************************************************************************)
EXTENDS Bundle, SequenceTheorems, TLAPS

Ops == {"truncate", "fill", "read", "parse", "judge", "sign", "load"}
Instr == Ops \X Files

KeyContents == (1 .. keys) \cup {Absent, MangledSecret}
PubContents == (0 .. keys) \cup {MangledPublic}
SigContents == {Absent, Torn} \cup ((Nat \cup {Absent}) \X ManifestContents)
ModelContents == Models \cup {Absent, Torn}
ConfigContents == Configs \cup {Absent, Torn}

RegsOf(K, V) ==
  [key: K, vkey: V, min: Nat, configured: BOOLEAN,
   manifest: ManifestContents, sig: SigContents, onnx: ModelContents,
   config: ConfigContents]

RegsType == RegsOf(KeyContents, PubContents)

\* What the files and the registers may hold.
DataInv ==
  /\ keys \in Nat /\ commands \in Nat
  /\ DOMAIN files = Files
  /\ \A f \in PrivateFiles : files[f] \in KeyContents \cup {Torn}
  /\ \A f \in PublicFiles : files[f] \in PubContents \cup {Absent, Torn}
  /\ files["manifest"] \in ManifestContents
  /\ files["sig"] \in SigContents
  /\ files["onnx"] \in ModelContents
  /\ files["config"] \in ConfigContents
  /\ regs \in [Processes -> RegsType]

Outcomes ==
  {"None", "Running", "Ok", "Aborted", "BundleMissing",
   "ManifestSchemaInvalid", "ManifestSignatureInvalid",
   "RollbackRejected", "OnnxHashMismatch"}

\* A process has steps left exactly while it runs.
ProgInv ==
  /\ prog \in [Processes -> Seq(Instr)]
  /\ outcome \in [Processes -> Outcomes]
  /\ \A p \in Processes : prog[p] = <<>> <=> outcome[p] # "Running"
  /\ keys <= commands /\ commands <= MaxCommands
  /\ DOMAIN alone = Processes

Inv == DataInv /\ ProgInv

LEMMA WriteType == \A f \in Files : Write(f) \in Seq(Instr) /\ Write(f) # <<>>
  BY DEF Write, Instr, Ops

LEMMA VerifyType == VerifyBundleDir \in Seq(Instr) /\ VerifyBundleDir # <<>>
  BY DEF VerifyBundleDir, Instr, Ops, Files

LEMMA ConcatType ==
  \A s, t \in Seq(Instr) : /\ s \o t \in Seq(Instr)
                           /\ s # <<>> \/ t # <<>> => s \o t # <<>>
  OBVIOUS

Programs == Seq(Instr) \ {<<>>}

\* Every command is a non-empty sequence of steps on files of the directory.
LEMMA ProgramTypes ==
  /\ KeygenSteps \in Programs /\ StubOnnxSteps \in Programs
  /\ \A f \in PrivateFiles : SignSteps(f) \in Programs
  /\ \A f \in PublicFiles \cup {"pinned"} : VerifySteps(f) \in Programs
  /\ InitDevSteps \in Programs /\ DeploySteps \in Programs
  /\ Write("config") \in Programs
<1>1. \A f \in Files : Write(f) \in Programs
  BY WriteType DEF Programs
<1>2. \A s, t \in Programs : s \o t \in Programs
  BY ConcatType DEF Programs
<1>3. VerifyBundleDir \in Programs
  BY VerifyType DEF Programs
<1>4. << <<"sign", "sig">> >> \in Programs
  BY DEF Programs, Instr, Ops, Files
<1>5. \A f \in Files :
        /\ << <<"read", f>> >> \in Programs
        /\ << <<"read", f>>, <<"read", "manifest">>, <<"parse", "manifest">>,
              <<"sign", "sig">> >> \in Programs
  BY DEF Programs, Instr, Ops, Files
<1>6. <<>> \o VerifyBundleDir = VerifyBundleDir
  BY VerifyType
<1> PrivateFiles \cup PublicFiles \cup {"onnx", "manifest", "sig", "config"}
      \subseteq Files
  BY DEF Files
<1> PrivateFiles = {"sign.key", "sign.key.hex", "dev_root.key"}
  BY DEF PrivateFiles
<1> PublicFiles = {"pub.key", "pub.key.hex", "dev_root.pub", "dev_root.pub.hex"}
  BY DEF PublicFiles
<1> HIDE DEF Programs
<1>7. KeygenSteps \in Programs /\ StubOnnxSteps \in Programs
  BY <1>1, <1>2 DEF KeygenSteps, StubOnnxSteps
<1>8. \A f \in PrivateFiles : SignSteps(f) \in Programs
  BY <1>1, <1>2, <1>5 DEF SignSteps
<1>9. \A f \in PublicFiles \cup {"pinned"} : VerifySteps(f) \in Programs
  BY <1>2, <1>3, <1>5, <1>6 DEF VerifySteps
<1>10. InitDevSteps \in Programs /\ DeploySteps \in Programs
  BY <1>1, <1>2, <1>3, <1>4 DEF InitDevSteps, DeploySteps
<1> QED
  BY <1>1, <1>7, <1>8, <1>9, <1>10

USE DEF Processes, Pinned, MangledSecret, MangledPublic

\* Verdict of any registers is one of the outcomes that end a command.
LEMMA VerdictType ==
  \A r : Verdict(r) \in Outcomes \ {"Running", "None", "Aborted"}
  BY DEF Verdict, Outcomes

LEMMA InitInv == BundleInit => Inv
<1> SUFFICES ASSUME BundleInit PROVE Inv
  OBVIOUS
<1>1. ProgInv
  BY BundleAssumption DEF BundleInit, ProgInv, Outcomes
<1>2. regs \in [Processes -> RegsType]
  BY BundleAssumption DEF BundleInit, RegsType, RegsOf, NoRegs, KeyContents, PubContents,
     SigContents, ModelContents, ConfigContents, DefaultMinimum, ManifestContents
<1>3. keys \in Nat /\ commands \in Nat /\ DOMAIN files = Files
  BY DEF BundleInit
<1>4. /\ \A f \in PrivateFiles : files[f] \in KeyContents \cup {Torn}
      /\ \A f \in PublicFiles : files[f] \in PubContents \cup {Absent, Torn}
  BY DEF BundleInit, KeyContents, PubContents, PrivateFiles, PublicFiles, Files
<1>5. /\ files["manifest"] \in ManifestContents /\ files["sig"] \in SigContents
      /\ files["onnx"] \in ModelContents /\ files["config"] \in ConfigContents
  BY DEF BundleInit, ManifestContents, SigContents, ModelContents,
     ConfigContents, Files, Manifests, Models
<1> QED
  BY <1>1, <1>2, <1>3, <1>4, <1>5 DEF Inv, DataInv

\* What may be stored only grows when a key is made.
LEMMA Monotone ==
  ASSUME keys \in Nat, keys' \in {keys, keys + 1}
  PROVE  KeyContents \subseteq KeyContents' /\ PubContents \subseteq PubContents'
  BY DEF KeyContents, PubContents

LEMMA BeginInv ==
  ASSUME Inv, NEW p \in Processes, NEW steps \in Programs, NEW r \in RegsType',
         keys' \in {keys, keys + 1}, Begin(p, steps, r)
  PROVE  Inv'
<1>1. ProgInv'
  BY BundleAssumption DEF Inv, DataInv, ProgInv, Begin, Programs, Outcomes
<1>2. /\ KeyContents \subseteq KeyContents'
      /\ PubContents \subseteq PubContents'
  BY Monotone DEF Inv, DataInv
<1>3. RegsType \subseteq RegsType'
  BY <1>2 DEF RegsType, RegsOf, SigContents, ModelContents, ConfigContents, ManifestContents
<1>4. regs' \in [Processes -> RegsType']
  BY <1>3 DEF Inv, DataInv, Begin
<1>5. keys' \in Nat /\ commands' \in Nat /\ files' = files
  BY DEF Inv, DataInv, Begin
<1>6. DataInv'
  BY <1>2, <1>4, <1>5 DEF Inv, DataInv, SigContents, ModelContents,
     ConfigContents, ManifestContents
<1> QED
  BY <1>1, <1>6 DEF Inv

LEMMA UpdateType ==
  ASSUME NEW K, NEW V, NEW r \in RegsOf(K, V)
  PROVE  /\ \A x \in K : [r EXCEPT !.key = x] \in RegsOf(K, V)
         /\ \A x \in V : [r EXCEPT !.vkey = x] \in RegsOf(K, V)
         /\ \A x \in Nat : [r EXCEPT !.min = x] \in RegsOf(K, V)
         /\ \A x \in BOOLEAN : [r EXCEPT !.configured = x] \in RegsOf(K, V)
         /\ \A x \in ManifestContents :
              [r EXCEPT !.manifest = x] \in RegsOf(K, V)
         /\ \A x \in SigContents : [r EXCEPT !.sig = x] \in RegsOf(K, V)
         /\ \A x \in ModelContents : [r EXCEPT !.onnx = x] \in RegsOf(K, V)
         /\ \A x \in ConfigContents : [r EXCEPT !.config = x] \in RegsOf(K, V)
  BY DEF RegsOf

LEMMA NoRegsType ==
  ASSUME keys' \in Nat
  PROVE  NoRegs \in RegsType'
  BY DEF RegsType, RegsOf, NoRegs, KeyContents, PubContents,
     SigContents, ModelContents, ConfigContents, DefaultMinimum, ManifestContents

LEMMA CommandInv ==
  ASSUME Inv, NEW p \in Processes, Command(p)
  PROVE  Inv'
<1> DevManifest.model \in Models /\ DevManifest \in Manifests
  BY DEF Models, Manifests
<1> keys \in Nat
  BY DEF Inv, DataInv
<1> USE DEF RegsType, KeyContents, PubContents,
     SigContents, ModelContents, ConfigContents, DefaultMinimum, ManifestContents
<1>1. CASE Keygen(p)
  <2>1. [NoRegs EXCEPT !.key = keys', !.vkey = keys'] \in RegsType'
    <3> DEFINE a == [NoRegs EXCEPT !.key = keys']
               b == [a EXCEPT !.vkey = keys']
    <3>1. keys' \in Nat /\ keys' \in KeyContents' /\ keys' \in PubContents'
      BY <1>1 DEF Keygen, FreshKey
    <3>2. a \in RegsType'
      BY <3>1, NoRegsType, UpdateType
    <3>3. b \in RegsType'
      <4> HIDE DEF a
      <4> QED  BY <3>1, <3>2, UpdateType
    <3> QED
      BY <3>3
  <2> QED
    BY <1>1, <2>1, BeginInv, ProgramTypes DEF Keygen, FreshKey
<1>2. CASE StubOnnx(p)
  <2>1. [NoRegs EXCEPT !.onnx = DevManifest.model] \in RegsType'
    BY <1>2, NoRegsType, UpdateType DEF StubOnnx
  <2> QED
    BY <1>2, <2>1, BeginInv, ProgramTypes DEF StubOnnx
<1>3. CASE InitDev(p)
  <2>1. [NoRegs EXCEPT !.key = keys', !.vkey = keys', !.min = 1,
          !.onnx = DevManifest.model, !.manifest = DevManifest] \in RegsType'
    <3> DEFINE a == [NoRegs EXCEPT !.key = keys']
               b == [a EXCEPT !.vkey = keys']
               c == [b EXCEPT !.min = 1]
               d == [c EXCEPT !.onnx = DevManifest.model]
               e == [d EXCEPT !.manifest = DevManifest]
    <3>1. keys' \in Nat /\ keys' \in KeyContents' /\ keys' \in PubContents'
      BY <1>3 DEF InitDev, FreshKey
    <3>2. a \in RegsType'
      BY <3>1, NoRegsType, UpdateType
    <3>3. b \in RegsType'
      <4> HIDE DEF a
      <4> QED  BY <3>1, <3>2, UpdateType
    <3>4. c \in RegsType'
      <4> HIDE DEF b
      <4> QED  BY <3>3, UpdateType
    <3>5. d \in RegsType'
      <4> HIDE DEF c
      <4> QED  BY <3>4, UpdateType
    <3>6. e \in RegsType'
      <4> HIDE DEF d
      <4> QED  BY <3>5, UpdateType
    <3> QED
      BY <3>6
  <2> QED
    BY <1>3, <2>1, BeginInv, ProgramTypes DEF InitDev, FreshKey
<1>4. CASE \E f \in PrivateFiles : Sign(p, f)
  <2>1. PICK f \in PrivateFiles : Sign(p, f)
    BY <1>4
  <2>2. NoRegs \in RegsType'
    BY <2>1, NoRegsType, UpdateType DEF Sign
  <2> QED
    BY <2>1, <2>2, BeginInv, ProgramTypes DEF Sign
<1>5. CASE \E f \in PublicFiles \cup {"pinned"} : Verify(p, f)
  <2>1. PICK f \in PublicFiles \cup {"pinned"} : Verify(p, f)
    BY <1>5
  <2>2. [NoRegs EXCEPT !.min = 1] \in RegsType'
    BY <2>1, NoRegsType, UpdateType DEF Verify
  <2> QED
    BY <2>1, <2>2, BeginInv, ProgramTypes DEF Verify
<1>6. CASE \E m \in Releases : Deploy(p, m)
  <2>1. PICK m \in Releases : Deploy(p, m)
    BY <1>6
  <2>2. [NoRegs EXCEPT !.manifest = m, !.sig = <<Pinned, m>>, !.onnx = m.model]
          \in RegsType'
    <3> DEFINE a == [NoRegs EXCEPT !.manifest = m]
               b == [a EXCEPT !.sig = <<Pinned, m>>]
               c == [b EXCEPT !.onnx = m.model]
    <3>1. m \in Manifests /\ m.model \in Models /\ keys' \in Nat
      BY <2>1 DEF Deploy, Manifests, Models
    <3>2. a \in RegsType'
      BY <3>1, NoRegsType, UpdateType
    <3>3. b \in RegsType'
      <4> HIDE DEF a
      <4> QED  BY <3>1, <3>2, UpdateType
    <3>4. c \in RegsType'
      <4> HIDE DEF b
      <4> QED  BY <3>1, <3>3, UpdateType
    <3> QED
      BY <3>4
  <2> QED
    BY <2>1, <2>2, BeginInv, ProgramTypes DEF Deploy
<1>7. CASE \E c \in Configs : Configure(p, c)
  <2>1. PICK c \in Configs : Configure(p, c)
    BY <1>7
  <2>2. [NoRegs EXCEPT !.config = c] \in RegsType'
    BY <2>1, NoRegsType, UpdateType DEF Configure
  <2> QED
    BY <2>1, <2>2, BeginInv, ProgramTypes DEF Configure
<1> QED
  BY <1>1, <1>2, <1>3, <1>4, <1>5, <1>6, <1>7 DEF Command

\* What is read has the type of the register it is read into.
LEMMA ReadType ==
  ASSUME Inv, NEW p \in Processes, NEW f \in Files, NEW x \in Readings(f)
  PROVE  [regs[p] EXCEPT ![Register(f)] = x] \in RegsType
<1> DEFINE r == regs[p]
<1>0. r \in RegsOf(KeyContents, PubContents)
  BY DEF Inv, DataInv, RegsType
<1> HIDE DEF r
<1>1. CASE f \in PrivateFiles
  <2>1. Register(f) = "key" /\ x \in KeyContents
    BY <1>1 DEF Register, Inv, DataInv, Unreadable, Readings, KeyContents
  <2>2. [r EXCEPT !.key = x] \in RegsType
    BY <1>0, <2>1, UpdateType DEF RegsType
  <2> QED
    BY <2>1, <2>2 DEF r
<1>2. CASE f \in PublicFiles
  <2>1. Register(f) = "vkey" /\ x \in PubContents
    BY <1>2 DEF Register, Inv, DataInv, Unreadable, PublicFiles, PrivateFiles,
       Readings, PubContents
  <2>2. [r EXCEPT !.vkey = x] \in RegsType
    BY <1>0, <2>1, UpdateType DEF RegsType
  <2> QED
    BY <2>1, <2>2 DEF r
<1>3. CASE f \in {"onnx", "manifest", "sig", "config"}
  <2>1. Register(f) = f /\ x = files[f]
    BY <1>3 DEF Register, PublicFiles, PrivateFiles, Readings, Unreadable,
       HexFiles
  <2>2. /\ [r EXCEPT !.onnx = files["onnx"]] \in RegsType
        /\ [r EXCEPT !.manifest = files["manifest"]] \in RegsType
        /\ [r EXCEPT !.sig = files["sig"]] \in RegsType
        /\ [r EXCEPT !.config = files["config"]] \in RegsType
    BY <1>0, UpdateType DEF RegsType, Inv, DataInv
  <2> QED
    BY <1>3, <2>1, <2>2 DEF r
<1> QED
  BY <1>1, <1>2, <1>3 DEF Files

\* A step is on a file of the directory, and what follows it is a program.
LEMMA AtType ==
  ASSUME Inv, NEW p \in Processes, prog[p] # <<>>
  PROVE  /\ Head(prog[p]) \in Instr /\ Target(p) \in Files
         /\ Tail(prog[p]) \in Seq(Instr) /\ Len(prog[p]) \in Nat \ {0}
         /\ Tail(prog[p]) = <<>> <=> Len(prog[p]) = 1
         /\ outcome[p] = "Running"
<1>1. prog[p] \in Seq(Instr)
  BY DEF Inv, ProgInv
<1>2. Head(prog[p]) \in Instr
  BY <1>1
<1>3. Target(p) \in Files
  BY <1>2 DEF Instr, Target
<1>4. /\ Tail(prog[p]) \in Seq(Instr)
      /\ Len(prog[p]) \in Nat \ {0}
      /\ Len(Tail(prog[p])) = Len(prog[p]) - 1
  BY <1>1
<1>5. Tail(prog[p]) = <<>> <=> Len(Tail(prog[p])) = 0
  BY <1>4, EmptySeq
<1>6. outcome[p] = "Running"
  BY DEF Inv, ProgInv
<1> QED
  BY <1>2, <1>3, <1>4, <1>5, <1>6

LEMMA ProceedInv ==
  ASSUME Inv, NEW p \in Processes, prog[p] # <<>>, Proceed(p),
         UNCHANGED <<keys, commands>>, DOMAIN alone' = Processes
  PROVE  ProgInv'
<1>1. prog' \in [Processes -> Seq(Instr)] /\ outcome' \in [Processes -> Outcomes]
  BY AtType DEF Inv, ProgInv, Proceed, Advance, Outcomes
<1>2. \A q \in Processes : prog'[q] = <<>> <=> outcome'[q] # "Running"
  BY AtType DEF Inv, ProgInv, Proceed, Advance, Outcomes
<1> QED
  BY <1>1, <1>2 DEF Inv, ProgInv

LEMMA FinishInv ==
  ASSUME Inv, NEW p \in Processes, NEW how \in Outcomes \ {"Running"},
         Finish(p, how), UNCHANGED <<keys, commands>>,
         DOMAIN alone' = Processes
  PROVE  ProgInv'
  BY DEF Inv, ProgInv, Finish, Outcomes

LEMMA MinimaType == \A c : LoadOrSafeDefaults(c) \subseteq Nat
<1>1. CutMinima \subseteq Nat
  BY BundleAssumption DEF CutMinima, DefaultMinimum
<1>2. \A c \in Configs : {c.minimum} \subseteq Nat
  BY BundleAssumption
<1>3. {DefaultMinimum} \subseteq Nat
  BY DEF DefaultMinimum
<1> QED
  BY <1>1, <1>2, <1>3 DEF LoadOrSafeDefaults

LEMMA StepInv ==
  ASSUME Inv, NEW p \in Processes, Step(p)
  PROVE  Inv'
<1> USE DEF Inv
<1>0. prog[p] # <<>>
  BY DEF Step, Truncate, Fill, ReadFails, Read, LoadConfig, Parse, SignManifest,
     Judge, At
<1> DEFINE f == Target(p)
<1>1. f \in Files
  BY <1>0, AtType
<1> HIDE DEF f
<1> DOMAIN alone' = Processes
  BY DEF Step, Truncate, Fill, ReadFails, Read, LoadConfig, Parse, SignManifest,
     Judge, PutFile, ProgInv
<1>2. CASE Truncate(p) \/ Fill(p)
  <2>1. ProgInv'
    BY <1>0, <1>2, ProceedInv DEF Truncate, Fill
  <2>2. /\ UNCHANGED <<regs, keys, commands>>
        /\ \E x \in {Torn, regs[p][Register(f)]} :
             files' = [files EXCEPT ![f] = x]
    BY <1>2 DEF Truncate, Fill, PutFile, f
  <2>3. /\ f \in PrivateFiles => regs[p][Register(f)] \in KeyContents
        /\ f \in PublicFiles => regs[p][Register(f)] \in PubContents
        /\ f = "manifest" => regs[p][Register(f)] \in ManifestContents
        /\ f = "sig" => regs[p][Register(f)] \in SigContents
        /\ f = "onnx" => regs[p][Register(f)] \in ModelContents
        /\ f = "config" => regs[p][Register(f)] \in ConfigContents
    BY <1>1 DEF DataInv, RegsType, RegsOf, Register, PrivateFiles, PublicFiles
  <2>4. Torn \in ManifestContents /\ Torn \in SigContents
        /\ Torn \in ModelContents /\ Torn \in ConfigContents
    BY DEF ManifestContents, SigContents, ModelContents, ConfigContents
  <2>5. KeyContents' = KeyContents /\ PubContents' = PubContents
        /\ RegsType' = RegsType
    BY <2>2 DEF KeyContents, PubContents, RegsType
  <2>6. DataInv'
    BY <1>1, <2>2, <2>3, <2>4, <2>5 DEF DataInv, Files
  <2> QED
    BY <2>1, <2>6
<1>3. CASE ReadFails(p) \/ Parse(p) \/ Judge(p)
  <2>1. UNCHANGED <<files, regs, keys, commands>>
    BY <1>3 DEF ReadFails, Parse, Judge
  <2>2. DataInv'
    BY <2>1 DEF DataInv, RegsType, KeyContents, PubContents
  <2>3. ProgInv'
    BY <1>0, <1>3, FinishInv, ProceedInv, VerdictType
       DEF ReadFails, Parse, Judge, Outcomes
  <2> QED
    BY <2>2, <2>3
<1>4. CASE Read(p) \/ LoadConfig(p) \/ SignManifest(p)
  <2>1. UNCHANGED <<files, keys, commands>> /\ ProgInv'
    BY <1>0, <1>4, ProceedInv DEF Read, LoadConfig, SignManifest
  <2>2. RegsType' = RegsType
    BY <2>1 DEF RegsType, KeyContents, PubContents
  <2>3. \E r \in RegsType : regs' = [regs EXCEPT ![p] = r]
    <3>0. regs[p] \in RegsOf(KeyContents, PubContents)
      BY DEF DataInv, RegsType
    <3>1. CASE Read(p)
      <4>1. PICK x \in Readings(f) :
              regs' = [regs EXCEPT ![p][Register(f)] = x]
        BY <3>1 DEF Read, f
      <4>2. [regs[p] EXCEPT ![Register(f)] = x] \in RegsType
        BY <1>1, ReadType
      <4> QED
        BY <4>1, <4>2
    <3>2. CASE LoadConfig(p)
      <4>1. PICK n \in LoadOrSafeDefaults(files["config"]) :
              regs' = [regs EXCEPT ![p].min = n]
        BY <3>2 DEF LoadConfig
      <4>2. [regs[p] EXCEPT !.min = n] \in RegsType
        BY <3>0, MinimaType, UpdateType DEF RegsType
      <4> QED
        BY <4>1, <4>2
    <3>3. CASE SignManifest(p)
      <4>1. <<regs[p].key, regs[p].manifest>> \in SigContents
        BY <3>0, BundleAssumption DEF RegsOf, SigContents, KeyContents
      <4>2. [regs[p] EXCEPT !.sig = <<regs[p].key, regs[p].manifest>>]
              \in RegsType
        BY <3>0, <4>1, UpdateType DEF RegsType
      <4> QED
        BY <3>3, <4>2 DEF SignManifest
    <3> QED
      BY <1>4, <3>1, <3>2, <3>3
  <2>4. DataInv'
    BY <2>1, <2>2, <2>3 DEF DataInv, KeyContents, PubContents
  <2> QED
    BY <2>1, <2>4
<1> QED
  BY <1>2, <1>3, <1>4 DEF Step

LEMMA OpenType ==
  \A configured \in BOOLEAN :
    (IF configured THEN << <<"load", "config">> >> ELSE <<>>) \o VerifyBundleDir
      \in Programs
<1>1. << <<"load", "config">> >> \in Seq(Instr) /\ <<>> \in Seq(Instr)
  BY DEF Instr, Ops, Files
<1> QED
  BY <1>1, VerifyType, ConcatType DEF Programs

LEMMA NextInv ==
  ASSUME Inv, [BundleNext]_bundleVars
  PROVE  Inv'
<1>1. CASE \E p \in Packers : Command(p)
  BY <1>1, CommandInv
<1>2. CASE \E p \in Readers, configured \in BOOLEAN : Open(p, configured)
  <2>1. PICK p \in Readers, configured \in BOOLEAN : Open(p, configured)
    BY <1>2
  <2>2. keys' \in Nat
    BY <2>1 DEF Open, Inv, DataInv
  <2>3. [NoRegs EXCEPT !.configured = configured] \in RegsType'
    BY <2>2, NoRegsType, UpdateType DEF RegsType
  <2> QED
    BY <2>1, <2>3, BeginInv, OpenType DEF Open
<1>3. CASE \E p \in Processes : Step(p)
  BY <1>3, StepInv
<1>4. CASE \E p \in Processes : Abort(p)
  <2>1. PICK p \in Processes : Abort(p)
    BY <1>4
  <2>2. ProgInv'
    BY <2>1, FinishInv DEF Abort, Outcomes, Inv, ProgInv
  <2>3. DataInv'
    BY <2>1 DEF Abort, Inv, DataInv, RegsType, KeyContents, PubContents
  <2> QED
    BY <2>2, <2>3 DEF Inv
<1>5. CASE UNCHANGED bundleVars
  BY <1>5 DEF bundleVars, Inv, DataInv, ProgInv, RegsType, KeyContents,
     PubContents
<1> QED
  BY <1>1, <1>2, <1>3, <1>4, <1>5 DEF BundleNext

\* Whatever commands run, die or fail half way, a key that the packer holds was
\* generated by it, a torn key file is never taken for a key, and a process
\* runs exactly while it has steps left (cmd_sign, cmd_verify, cmd_keygen).
THEOREM BundleTypes == BundleSpec => []BundleTypeOK
<1>1. Inv => BundleTypeOK
  BY DEF Inv, DataInv, ProgInv, BundleTypeOK, Outcomes, RegsType, RegsOf,
     KeyContents, PubContents
<1> QED
  BY <1>1, InitInv, NextInv, PTL DEF BundleSpec

-----------------------------------------------------------------------------
(* Signatures.                                                             *)

\* If x is a signature by the pinned key, then of a release.
Genuine(x) == \A m \in ManifestContents : x = <<Pinned, m>> => m \in Releases

SigInv ==
  /\ Genuine(files["sig"])
  /\ \A p \in Processes : Genuine(regs[p].sig)

LEMMA NotSignatures == Genuine(Absent) /\ Genuine(Torn)
  BY BundleAssumption DEF Genuine

LEMMA InitSig == BundleInit => SigInv
<1> SUFFICES ASSUME BundleInit PROVE SigInv
  OBVIOUS
<1>1. \A p \in Processes : Genuine(regs[p].sig)
  BY NotSignatures DEF BundleInit, NoRegs
<1>2. files["sig"] = Absent \/ \E m \in Releases : files["sig"] = <<Pinned, m>>
  BY DEF BundleInit, Files
<1>3. Genuine(files["sig"])
  BY <1>2, NotSignatures DEF Genuine
<1> QED
  BY <1>1, <1>3 DEF SigInv

\* What a command holds at first.
LEMMA CommandSig ==
  ASSUME NEW p \in Processes, Inv, SigInv,
         Command(p) \/ \E configured \in BOOLEAN : Open(p, configured)
  PROVE  SigInv'
<1>1. PICK steps, r : Begin(p, steps, r) /\ Genuine(r.sig)
  <2>0. NoRegs.sig = Absent
    BY DEF NoRegs
  <2>0a. NoRegs \in RegsOf({Absent}, {0})
    BY DEF NoRegs, RegsOf, SigContents, ModelContents, ConfigContents,
       DefaultMinimum, ManifestContents
  <2>1. CASE Keygen(p)
    <3>1. [NoRegs EXCEPT !.key = keys', !.vkey = keys'].sig = Absent
      BY <2>0, <2>0a DEF RegsOf
    <3> QED
      BY <2>1, <3>1, NotSignatures DEF Keygen
  <2>2. CASE StubOnnx(p)
    <3>1. [NoRegs EXCEPT !.onnx = DevManifest.model].sig = Absent
      BY <2>0, <2>0a DEF RegsOf
    <3> QED
      BY <2>2, <3>1, NotSignatures DEF StubOnnx
  <2>3. CASE InitDev(p)
    <3>1. [NoRegs EXCEPT !.key = keys', !.vkey = keys', !.min = 1,
             !.onnx = DevManifest.model, !.manifest = DevManifest].sig = Absent
      BY <2>0, <2>0a DEF RegsOf
    <3> QED
      BY <2>3, <3>1, NotSignatures DEF InitDev
  <2>4. CASE \E f \in PrivateFiles : Sign(p, f)
    BY <2>4, <2>0, NotSignatures DEF Sign
  <2>5. CASE \E f \in PublicFiles \cup {"pinned"} : Verify(p, f)
    <3>1. [NoRegs EXCEPT !.min = 1].sig = Absent
      BY <2>0, <2>0a DEF RegsOf
    <3> QED
      BY <2>5, <3>1, NotSignatures DEF Verify
  <2>6. CASE \E m \in Releases : Deploy(p, m)
    <3>1. PICK m \in Releases : Deploy(p, m)
      BY <2>6
    <3>2. [NoRegs EXCEPT !.manifest = m, !.sig = <<Pinned, m>>,
             !.onnx = m.model].sig = <<Pinned, m>>
      BY <2>0a DEF RegsOf
    <3>3. Genuine(<<Pinned, m>>)
      BY DEF Genuine
    <3> QED
      BY <3>1, <3>2, <3>3 DEF Deploy
  <2>7. CASE \E c \in Configs : Configure(p, c)
    <3>1. \A c : [NoRegs EXCEPT !.config = c].sig = Absent
      BY <2>0, <2>0a DEF RegsOf
    <3> QED
      BY <2>7, <3>1, NotSignatures DEF Configure
  <2>8. CASE \E configured \in BOOLEAN : Open(p, configured)
    <3>1. \A c : [NoRegs EXCEPT !.configured = c].sig = Absent
      BY <2>0, <2>0a DEF RegsOf
    <3> QED
      BY <2>8, <3>1, NotSignatures DEF Open
  <2> QED
    BY <2>1, <2>2, <2>3, <2>4, <2>5, <2>6, <2>7, <2>8 DEF Command
<1>2. \A q \in Processes : regs'[q] = IF q = p THEN r ELSE regs[q]
  BY <1>1 DEF Begin, Inv, DataInv
<1> QED
  BY <1>1, <1>2 DEF SigInv, Begin, Genuine

LEMMA StepSig ==
  ASSUME NEW p \in Processes, Inv, SigInv, Step(p) \/ Abort(p)
  PROVE  SigInv'
<1> USE DEF Inv
<1> DEFINE f == Target(p)
<1>1. CASE Truncate(p) \/ Fill(p)
  <2>1. /\ UNCHANGED regs
        /\ \E x \in {Torn, regs[p][Register(f)]} :
             files' = [files EXCEPT ![f] = x]
    BY <1>1 DEF Truncate, Fill, PutFile
  <2>2. Register("sig") = "sig"
    BY DEF Register, PrivateFiles, PublicFiles
  <2>3. files'["sig"] \in {files["sig"], Torn, regs[p].sig}
    BY <2>1, <2>2 DEF DataInv, Files
  <2>4. Genuine(files'["sig"])
    BY <2>3, NotSignatures DEF SigInv
  <2> QED
    BY <2>1, <2>4 DEF SigInv, Genuine
<1>2. CASE ReadFails(p) \/ Parse(p) \/ Judge(p) \/ Abort(p)
  BY <1>2 DEF ReadFails, Parse, Judge, Abort, SigInv, Genuine
<1>3. CASE Read(p) \/ LoadConfig(p) \/ SignManifest(p)
  <2>1. UNCHANGED files
    BY <1>3 DEF Read, LoadConfig, SignManifest
  <2>2. \A q \in Processes : q # p => regs'[q] = regs[q]
    BY <1>3 DEF Read, LoadConfig, SignManifest, DataInv
  <2>3. Genuine(regs'[p].sig)
    <3>1. CASE Read(p)
      <4>1. f \in Files
        BY <3>1, AtType DEF Read, At
      <4>2. Register(f) = "sig" <=> f = "sig"
        BY <4>1 DEF Register, PrivateFiles, PublicFiles, Files
      <4>3. PICK x \in Readings(f) :
              regs' = [regs EXCEPT ![p][Register(f)] = x]
        BY <3>1 DEF Read
      <4>4. f = "sig" => x = files["sig"]
        BY <4>3 DEF Readings, Unreadable, PrivateFiles, PublicFiles, HexFiles
      <4>5. regs'[p].sig \in {regs[p].sig, files["sig"]}
        BY <4>2, <4>3, <4>4 DEF DataInv, RegsType, RegsOf
      <4> QED
        BY <4>5 DEF SigInv
    <3>2. CASE LoadConfig(p)
      <4>1. regs'[p].sig = regs[p].sig
        BY <3>2 DEF LoadConfig, DataInv, RegsType, RegsOf
      <4> QED
        BY <4>1 DEF SigInv
    <3>3. CASE SignManifest(p)
      <4>1. regs'[p].sig = <<regs[p].key, regs[p].manifest>>
        BY <3>3 DEF SignManifest, DataInv, RegsType, RegsOf
      <4>2. regs[p].key # Pinned
        BY BundleAssumption DEF DataInv, RegsType, RegsOf, KeyContents
      <4> QED
        BY <4>1, <4>2 DEF Genuine
    <3> QED
      BY <1>3, <3>1, <3>2, <3>3
  <2> QED
    BY <2>1, <2>2, <2>3 DEF SigInv, Genuine
<1> QED
  BY <1>1, <1>2, <1>3 DEF Step

LEMMA NextSig ==
  ASSUME Inv, SigInv, [BundleNext]_bundleVars
  PROVE  SigInv'
<1>1. CASE UNCHANGED bundleVars
  BY <1>1 DEF bundleVars, SigInv, Genuine
<1>2. CASE BundleNext
  BY <1>2, CommandSig, StepSig DEF BundleNext
<1> QED
  BY <1>1, <1>2

-----------------------------------------------------------------------------
(* Readers.                                                                *)

ReaderInstr ==
  { <<"load", "config">>, <<"read", "manifest">>, <<"read", "sig">>,
    <<"parse", "manifest">>, <<"read", "onnx">>, <<"judge", "manifest">> }

\* Step x is still to be taken by r.
Ahead(r, x) == \E i \in 1 .. Len(prog[r]) : prog[r][i] = x

\* The shape of what is left of verify_bundle_dir: it ends with the judgement,
\* and the manifest is read before it is parsed.
ShapeInv(r) ==
  \A i \in 1 .. Len(prog[r]) :
    /\ prog[r][i] \in ReaderInstr
    /\ prog[r][i][1] = "judge" <=> i = Len(prog[r])
    /\ prog[r][i][1] = "parse" =>
         \A j \in 1 .. Len(prog[r]) :
           prog[r][j] = <<"read", "manifest">> => j < i

\* What the registers of a reader say, whatever others do.
HoldsInv(r) ==
  /\ regs[r].vkey = Pinned
  /\ ~regs[r].configured =>
       regs[r].min = 0 /\ ~Ahead(r, <<"load", "config">>)
  /\ outcome[r] = "Ok" => Verdict(regs[r]) = "Ok"

\* While nobody else writes, what r has read is what is there.
FreshInv(r) ==
  alone[r] /\ prog[r] # <<>> =>
    /\ \A x \in {"manifest", "sig", "onnx"} :
         Ahead(r, <<"read", x>>) \/ regs[r][x] = files[x]
    /\ \/ Ahead(r, <<"load", "config">>)
       \/ regs[r].configured /\ ConfigIntact => regs[r].min = MinimumOnDisk

\* When it is done, its judgement is right.
ExactInv(r) ==
  alone[r] /\ prog[r] = <<>> =>
    /\ IsActive(r) => BundleGood(Pinned, 0)
    /\ ~regs[r].configured => (IsActive(r) <=> BundleGood(Pinned, 0))
    /\ regs[r].configured /\ ConfigIntact =>
         (IsActive(r) <=> BundleGood(Pinned, MinimumOnDisk))

ReaderInv(r) == ShapeInv(r) /\ HoldsInv(r) /\ FreshInv(r) /\ ExactInv(r)

LEMMA InitReader ==
  ASSUME BundleInit, NEW r \in Readers
  PROVE  ReaderInv(r)
<1>1. prog[r] = <<>> /\ regs[r] = NoRegs /\ outcome[r] = "None" /\ ~alone[r]
  BY DEF BundleInit
<1>2. ShapeInv(r)
  BY <1>1 DEF ShapeInv
<1>3. HoldsInv(r)
  BY <1>1 DEF HoldsInv, NoRegs, DefaultMinimum, Ahead
<1> QED
  BY <1>1, <1>2, <1>3 DEF ReaderInv, FreshInv, ExactInv

\* A step of another process, or none.
LEMMA OtherReader ==
  ASSUME NEW r \in Readers, ReaderInv(r),
         prog'[r] = prog[r], regs'[r] = regs[r], outcome'[r] = outcome[r],
         \/ ~alone'[r]
         \/ alone'[r] = alone[r] /\ files' = files
  PROVE  ReaderInv(r)'
<1>1. ShapeInv(r)' /\ HoldsInv(r)'
  BY DEF ReaderInv, ShapeInv, HoldsInv, Ahead
<1>2. FreshInv(r)'
  BY DEF ReaderInv, FreshInv, Ahead, MinimumOnDisk, ConfigIntact
<1>3. ExactInv(r)'
  BY DEF ReaderInv, ExactInv, IsActive, BundleGood, MinimumOnDisk,
     ConfigIntact
<1> QED
  BY <1>1, <1>2, <1>3 DEF ReaderInv

LEMMA OpenReader ==
  ASSUME Inv, NEW r \in Readers, NEW c \in BOOLEAN, Open(r, c)
  PROVE  ReaderInv(r)'
<1> DEFINE steps == (IF c THEN << <<"load", "config">> >> ELSE <<>>)
                      \o VerifyBundleDir
           R == [NoRegs EXCEPT !.configured = c]
<1>1. /\ prog'[r] = steps /\ regs'[r] = R /\ outcome'[r] = "Running"
      /\ files' = files
  BY DEF Open, Begin, Inv, DataInv, ProgInv
<1>2. /\ c => /\ Len(steps) = 6 /\ steps[1] = <<"load", "config">>
               /\ steps[2] = <<"read", "manifest">>
               /\ steps[3] = <<"read", "sig">>
               /\ steps[4] = <<"parse", "manifest">>
               /\ steps[5] = <<"read", "onnx">>
               /\ steps[6] = <<"judge", "manifest">>
      /\ ~c => /\ Len(steps) = 5 /\ steps[1] = <<"read", "manifest">>
                /\ steps[2] = <<"read", "sig">>
                /\ steps[3] = <<"parse", "manifest">>
                /\ steps[4] = <<"read", "onnx">>
                /\ steps[5] = <<"judge", "manifest">>
  <2>1. CASE c
    <3>1. steps = << <<"load", "config">> >> \o VerifyBundleDir
      BY <2>1
    <3> HIDE DEF steps
    <3> QED
      BY <2>1, <3>1 DEF VerifyBundleDir
  <2>2. CASE ~c
    <3>1. steps = <<>> \o VerifyBundleDir
      BY <2>2
    <3>2. steps = VerifyBundleDir
      BY <3>1, VerifyType, ConcatEmptySeq
    <3> HIDE DEF steps
    <3> QED
      BY <2>2, <3>2 DEF VerifyBundleDir
  <2> QED
    BY <2>1, <2>2
<1>3. R.vkey = Pinned /\ R.min = 0 /\ R.configured = c
  <2>1. NoRegs.vkey = Pinned /\ NoRegs.min = 0
    BY DEF NoRegs, DefaultMinimum
  <2>2. NoRegs \in RegsOf({Absent}, {0})
    BY DEF NoRegs, RegsOf, SigContents, ModelContents, ConfigContents,
       DefaultMinimum, ManifestContents
  <2> QED
    BY <2>1, <2>2 DEF RegsOf
<1> HIDE DEF steps, R
<1>4. ShapeInv(r)'
  <2>1. CASE c
    <3> DEFINE s == prog'[r]
    <3>1. /\ Len(s) = 6
          /\ s[1] = <<"load", "config">>
          /\ s[2] = <<"read", "manifest">>
          /\ s[3] = <<"read", "sig">>
          /\ s[4] = <<"parse", "manifest">>
          /\ s[5] = <<"read", "onnx">>
          /\ s[6] = <<"judge", "manifest">>
      BY <1>1, <1>2, <2>1
    <3> HIDE DEF s
    <3>2. \A i \in 1 .. Len(s) : i \in {1, 2, 3, 4, 5, 6}
      BY <3>1
    <3>3. \A i \in 1 .. Len(s) : /\ s[i] \in ReaderInstr
                                 /\ s[i][1] = "judge" <=> i = Len(s)
      BY <3>1, <3>2 DEF ReaderInstr
    <3>4. \A i, j \in 1 .. Len(s) :
            s[i][1] = "parse" /\ s[j] = <<"read", "manifest">> => j < i
      BY <3>1, <3>2
    <3> QED
      BY <3>3, <3>4 DEF ShapeInv, s
  <2>2. CASE ~c
    <3> DEFINE s == prog'[r]
    <3>1. /\ Len(s) = 5
          /\ s[1] = <<"read", "manifest">>
          /\ s[2] = <<"read", "sig">>
          /\ s[3] = <<"parse", "manifest">>
          /\ s[4] = <<"read", "onnx">>
          /\ s[5] = <<"judge", "manifest">>
      BY <1>1, <1>2, <2>2
    <3> HIDE DEF s
    <3>2. \A i \in 1 .. Len(s) : i \in {1, 2, 3, 4, 5}
      BY <3>1
    <3>3. \A i \in 1 .. Len(s) : /\ s[i] \in ReaderInstr
                                 /\ s[i][1] = "judge" <=> i = Len(s)
      BY <3>1, <3>2 DEF ReaderInstr
    <3>4. \A i, j \in 1 .. Len(s) :
            s[i][1] = "parse" /\ s[j] = <<"read", "manifest">> => j < i
      BY <3>1, <3>2
    <3> QED
      BY <3>3, <3>4 DEF ShapeInv, s
  <2> QED
    BY <2>1, <2>2
<1>5. HoldsInv(r)'
  <2>1. ASSUME ~c PROVE ~Ahead(r, <<"load", "config">>)'
    <3>1. Len(prog'[r]) = 5
      BY <1>1, <1>2, <2>1
    <3>2. \A i \in 1 .. 5 : i \in {1, 2, 3, 4, 5}
      OBVIOUS
    <3>3. \A i \in {1, 2, 3, 4, 5} : prog'[r][i] # <<"load", "config">>
      BY <1>1, <1>2, <2>1
    <3> QED
      BY <3>1, <3>2, <3>3 DEF Ahead
  <2> QED
    BY <1>1, <1>3, <2>1 DEF HoldsInv
<1>6. FreshInv(r)'
  <2>1. CASE c
    <3>1. Len(prog'[r]) = 6 /\ prog'[r][1] = <<"load", "config">>
          /\ prog'[r][2] = <<"read", "manifest">>
          /\ prog'[r][3] = <<"read", "sig">> /\ prog'[r][5] = <<"read", "onnx">>
      BY <1>1, <1>2, <2>1
    <3> QED
      BY <3>1 DEF FreshInv, Ahead
  <2>2. CASE ~c
    <3>1. Len(prog'[r]) = 5 /\ prog'[r][1] = <<"read", "manifest">>
          /\ prog'[r][2] = <<"read", "sig">> /\ prog'[r][4] = <<"read", "onnx">>
      BY <1>1, <1>2, <2>2
    <3> QED
      BY <1>1, <1>3, <2>2, <3>1 DEF FreshInv, Ahead
  <2> QED
    BY <2>1, <2>2
<1>7. ExactInv(r)'
  <2>1. prog'[r] # <<>>
    BY <1>1, OpenType DEF Programs, steps
  <2> QED
    BY <2>1 DEF ExactInv
<1> QED
  BY <1>4, <1>5, <1>6, <1>7 DEF ReaderInv

\* Taking the first step of a sequence.
LEMMA TailShape ==
  ASSUME Inv, NEW r \in Readers, ShapeInv(r), prog[r] # <<>>,
         prog'[r] = Tail(prog[r])
  PROVE  /\ ShapeInv(r)'
         /\ \A x : Ahead(r, x) <=> Head(prog[r]) = x \/ Ahead(r, x)'
<1> DEFINE s == prog[r]
           t == prog'[r]
<1>1. /\ s \in Seq(Instr) /\ Len(s) \in Nat \ {0} /\ Head(s) = s[1]
  BY AtType DEF Inv, ProgInv
<1>2. /\ Len(t) = Len(s) - 1
      /\ \A i \in 1 .. Len(t) : t[i] = s[i + 1]
  BY <1>1
<1>3. \A i \in 1 .. Len(t) : i + 1 \in 1 .. Len(s)
  BY <1>1, <1>2
<1>4. \A i \in 1 .. Len(s) : i = 1 \/ (i - 1 \in 1 .. Len(t) /\ t[i - 1] = s[i])
  BY <1>1, <1>2
<1> HIDE DEF t
<1>5. \A i \in 1 .. Len(t) :
        t[i] \in ReaderInstr /\ (t[i][1] = "judge" <=> i = Len(t))
  BY <1>1, <1>2, <1>3 DEF ShapeInv
<1>6. \A i, j \in 1 .. Len(t) :
        t[i][1] = "parse" /\ t[j] = <<"read", "manifest">> => j < i
  <2> SUFFICES ASSUME NEW i \in 1 .. Len(t), NEW j \in 1 .. Len(t),
                      t[i][1] = "parse", t[j] = <<"read", "manifest">>
               PROVE  j < i
    OBVIOUS
  <2>1. s[i + 1][1] = "parse" /\ s[j + 1] = <<"read", "manifest">>
    BY <1>2
  <2>2. j + 1 < i + 1
    BY <1>3, <2>1 DEF ShapeInv
  <2> QED
    BY <1>1, <1>2, <2>2
<1>7. \A x : Ahead(r, x) <=> Head(prog[r]) = x \/ Ahead(r, x)'
  <2> TAKE x
  <2>1. ASSUME Ahead(r, x), Head(s) # x
        PROVE  Ahead(r, x)'
    <3>1. PICK i \in 1 .. Len(s) : s[i] = x
      BY <2>1 DEF Ahead
    <3>2. i - 1 \in 1 .. Len(t) /\ t[i - 1] = x
      BY <1>1, <1>4, <2>1, <3>1
    <3> QED
      BY <3>2 DEF Ahead, t
  <2>2. ASSUME Ahead(r, x)'
        PROVE  Ahead(r, x)
    <3>1. PICK i \in 1 .. Len(t) : t[i] = x
      BY <2>2 DEF Ahead, t
    <3>2. i + 1 \in 1 .. Len(s) /\ s[i + 1] = x
      BY <1>2, <1>3, <3>1
    <3> QED
      BY <3>2 DEF Ahead
  <2>3. ASSUME Head(s) = x
        PROVE  Ahead(r, x)
    BY <1>1, <2>3 DEF Ahead
  <2> QED
    BY <2>1, <2>2, <2>3
<1> QED
  BY <1>5, <1>6, <1>7 DEF ShapeInv, t

LEMMA OwnReader ==
  ASSUME Inv, SigInv, NEW r \in Readers, ReaderInv(r), Step(r) \/ Abort(r)
  PROVE  ReaderInv(r)'
<1> USE DEF ReaderInv
<1>0. prog[r] # <<>>
  BY DEF Step, Truncate, Fill, ReadFails, Read, LoadConfig, Parse, SignManifest,
     Judge, At, Abort
<1> DEFINE h == Head(prog[r])
<1>1. /\ h = prog[r][1] /\ h \in ReaderInstr /\ Len(prog[r]) \in Nat \ {0}
      /\ h[1] = "judge" <=> Len(prog[r]) = 1
      /\ outcome[r] = "Running"
  <2>1. /\ prog[r] \in Seq(Instr) /\ Len(prog[r]) \in Nat \ {0}
        /\ outcome[r] = "Running"
    BY <1>0, AtType DEF Inv, ProgInv
  <2>2. h = prog[r][1] /\ 1 \in 1 .. Len(prog[r])
    BY <2>1
  <2> QED
    BY <2>1, <2>2 DEF ShapeInv
<1>2. regs[r] \in RegsType
  BY DEF Inv, DataInv
<1>3. ~Truncate(r) /\ ~Fill(r) /\ ~SignManifest(r)
  BY <1>1 DEF Truncate, Fill, SignManifest, At, ReaderInstr
<1> HIDE DEF h
<1>4. CASE Read(r)
  <2>1. PICK x \in {"manifest", "sig", "onnx"} : h = <<"read", x>>
    BY <1>1, <1>4 DEF Read, At, ReaderInstr, h
  <2>2. Target(r) = x /\ Register(x) = x
    BY <2>1 DEF Target, Register, PrivateFiles, PublicFiles, h
  <2>3. /\ regs' = [regs EXCEPT ![r][x] = files[x]]
        /\ prog'[r] = Tail(prog[r]) /\ outcome'[r] = "Running"
        /\ UNCHANGED <<files, alone>>
    <3>1. Readings(x) \subseteq {files[x]}
      BY DEF Readings, Unreadable, PrivateFiles, PublicFiles, HexFiles
    <3>2. \E y \in Readings(x) : regs' = [regs EXCEPT ![r][x] = y]
      BY <1>4, <2>2 DEF Read
    <3>3. regs' = [regs EXCEPT ![r][x] = files[x]]
      BY <3>1, <3>2
    <3>4. Proceed(r) /\ UNCHANGED <<files, alone>> /\ Len(prog[r]) # 1
      BY <1>1, <1>4, <2>1 DEF Read
    <3>5. prog'[r] = Tail(prog[r]) /\ outcome'[r] = "Running"
      BY <1>1, <3>4 DEF Proceed, Advance, Inv, ProgInv
    <3> QED
      BY <3>3, <3>4, <3>5
  <2>4. /\ regs'[r].vkey = regs[r].vkey /\ regs'[r].min = regs[r].min
        /\ regs'[r].configured = regs[r].configured
        /\ \A y \in {"manifest", "sig", "onnx"} :
             regs'[r][y] = IF y = x THEN files[y] ELSE regs[r][y]
    BY <1>2, <2>3 DEF Inv, DataInv, RegsType, RegsOf
  <2>5. /\ ShapeInv(r)'
        /\ \A y : Ahead(r, y) <=> h = y \/ Ahead(r, y)'
    BY <1>0, <2>3, TailShape DEF h
  <2>6. HoldsInv(r)'
    BY <2>3, <2>4, <2>5 DEF HoldsInv
  <2>7. FreshInv(r)'
    <3> SUFFICES ASSUME alone'[r], prog'[r] # <<>>
                 PROVE  FreshInv(r)'
      BY DEF FreshInv
    <3>1. ASSUME NEW y \in {"manifest", "sig", "onnx"}
          PROVE  Ahead(r, <<"read", y>>)' \/ regs'[r][y] = files'[y]
      BY <1>0, <2>1, <2>3, <2>4, <2>5 DEF FreshInv
    <3>2. \/ Ahead(r, <<"load", "config">>)'
          \/ regs'[r].configured /\ ConfigIntact'
               => regs'[r].min = MinimumOnDisk'
      BY <1>0, <2>1, <2>3, <2>4, <2>5 DEF FreshInv, MinimumOnDisk, ConfigIntact
    <3> QED
      BY <3>1, <3>2 DEF FreshInv
  <2>8. prog'[r] # <<>>
    BY <1>0, <1>1, <2>1, <2>3, AtType
  <2> QED
    BY <2>5, <2>6, <2>7, <2>8 DEF ExactInv
<1>5. CASE LoadConfig(r)
  <2>1. h = <<"load", "config">>
    BY <1>1, <1>5 DEF LoadConfig, At, ReaderInstr, h
  <2>2. PICK n \in LoadOrSafeDefaults(files["config"]) :
          regs' = [regs EXCEPT ![r].min = n]
    BY <1>5 DEF LoadConfig
  <2>3. /\ prog'[r] = Tail(prog[r]) /\ outcome'[r] = "Running"
        /\ UNCHANGED <<files, alone>>
    BY <1>1, <1>5, <2>1 DEF LoadConfig, Proceed, Advance, Inv, ProgInv
  <2>4. /\ regs'[r].vkey = regs[r].vkey
        /\ regs'[r].configured = regs[r].configured
        /\ regs'[r].min = n
        /\ \A y \in {"manifest", "sig", "onnx"} : regs'[r][y] = regs[r][y]
    BY <1>2, <2>2 DEF Inv, DataInv, RegsType, RegsOf
  <2>5. /\ ShapeInv(r)'
        /\ \A y : Ahead(r, y) <=> h = y \/ Ahead(r, y)'
    BY <1>0, <2>3, TailShape DEF h
  <2>6. HoldsInv(r)'
    BY <2>1, <2>3, <2>4, <2>5 DEF HoldsInv
  <2>7. FreshInv(r)'
    <3> SUFFICES ASSUME alone'[r], prog'[r] # <<>>
                 PROVE  FreshInv(r)'
      BY DEF FreshInv
    <3>1. regs[r].configured
      BY <2>1, <2>5 DEF HoldsInv
    <3>2. ConfigIntact' => n = MinimumOnDisk'
      BY <2>3, BundleAssumption DEF MinimumOnDisk, ConfigIntact,
         LoadOrSafeDefaults, DefaultMinimum
    <3>3. ASSUME NEW y \in {"manifest", "sig", "onnx"}
          PROVE  Ahead(r, <<"read", y>>)' \/ regs'[r][y] = files'[y]
      BY <1>0, <2>1, <2>3, <2>4, <2>5 DEF FreshInv
    <3> QED
      BY <2>4, <3>1, <3>2, <3>3 DEF FreshInv
  <2>8. prog'[r] # <<>>
    BY <1>0, <1>1, <2>1, <2>3, AtType
  <2> QED
    BY <2>5, <2>6, <2>7, <2>8 DEF ExactInv
<1>6. CASE Parse(r) /\ regs[r].manifest # Torn
  <2>1. h = <<"parse", "manifest">>
    BY <1>1, <1>6 DEF Parse, At, ReaderInstr, h
  <2>3. /\ prog'[r] = Tail(prog[r]) /\ outcome'[r] = "Running"
        /\ UNCHANGED <<files, regs, alone>>
    BY <1>1, <1>6, <2>1 DEF Parse, Proceed, Advance, Inv, ProgInv
  <2>5. /\ ShapeInv(r)'
        /\ \A y : Ahead(r, y) <=> h = y \/ Ahead(r, y)'
    BY <1>0, <2>3, TailShape DEF h
  <2>6. HoldsInv(r)'
    BY <2>3, <2>5 DEF HoldsInv
  <2>7. FreshInv(r)'
    BY <1>0, <2>1, <2>3, <2>5 DEF FreshInv, MinimumOnDisk, ConfigIntact
  <2>8. prog'[r] # <<>>
    BY <1>0, <1>1, <2>1, <2>3, AtType
  <2> QED
    BY <2>5, <2>6, <2>7, <2>8 DEF ExactInv
<1>7. CASE \/ ReadFails(r) \/ Judge(r) \/ Abort(r)
           \/ Parse(r) /\ regs[r].manifest = Torn
  <2>1. /\ prog'[r] = <<>> /\ UNCHANGED <<files, regs>>
        /\ Abort(r) \/ alone'[r] = alone[r]
        /\ Abort(r) => ~alone'[r]
    BY <1>7 DEF ReadFails, Judge, Abort, Parse, Finish, Inv, ProgInv
  <2>2. ShapeInv(r)' /\ FreshInv(r)'
    BY <2>1 DEF ShapeInv, FreshInv
  <2>3. outcome'[r] = "Ok" => Judge(r)
    BY <1>7 DEF ReadFails, Judge, Abort, Parse, Finish, Inv, ProgInv
  <2>4. Judge(r) => outcome'[r] = Verdict(regs[r])
    BY DEF Judge, Finish, Inv, ProgInv
  <2>5. HoldsInv(r)'
    BY <2>1, <2>3, <2>4 DEF HoldsInv, Ahead
  <2>6. ExactInv(r)'
    <3> DEFINE min == regs[r].min
    <3> SUFFICES ASSUME alone[r], ~Abort(r)
                 PROVE  /\ outcome'[r] = "Ok" => BundleGood(Pinned, 0)
                        /\ ~regs[r].configured =>
                             (outcome'[r] = "Ok" <=> BundleGood(Pinned, 0))
                        /\ regs[r].configured /\ ConfigIntact =>
                             (outcome'[r] = "Ok" <=>
                                BundleGood(Pinned, MinimumOnDisk))
      BY <2>1 DEF ExactInv, IsActive, BundleGood, MinimumOnDisk, ConfigIntact
    <3>0. min \in Nat /\ (~regs[r].configured => min = 0)
      BY <1>2 DEF HoldsInv, RegsType, RegsOf
    <3> HIDE DEF min
    <3>1. ASSUME Judge(r)
          PROVE  /\ Verdict(regs[r]) = "Ok" <=> BundleGood(Pinned, min)
                 /\ BundleGood(Pinned, min) => BundleGood(Pinned, 0)
                 /\ regs[r].configured /\ ConfigIntact => min = MinimumOnDisk
      <4>1. h[1] = "judge" /\ Len(prog[r]) = 1
        BY <1>1, <3>1 DEF Judge, At, h
      <4>2. \A x : x[1] # "judge" => ~Ahead(r, x)
        BY <1>1, <4>1 DEF Ahead
      <4>3. /\ regs[r].manifest = files["manifest"]
            /\ regs[r].sig = files["sig"]
            /\ regs[r].onnx = files["onnx"]
            /\ regs[r].min = min
            /\ regs[r].configured /\ ConfigIntact => min = MinimumOnDisk
        BY <1>0, <4>2 DEF FreshInv, min
      <4>4. regs[r].vkey = Pinned
        BY DEF HoldsInv
      <4>5. regs[r].min \in Nat /\ regs[r].manifest \in ManifestContents
        BY <1>2 DEF RegsType, RegsOf
      <4>6. ASSUME Verdict(regs[r]) = "Ok"
            PROVE  BundleGood(Pinned, min)
        <5>1. regs[r].sig = <<Pinned, regs[r].manifest>>
          BY <4>4, <4>6 DEF Verdict
        <5>2. regs[r].manifest \in Releases
          BY <4>5, <5>1 DEF SigInv, Genuine
        <5>3. /\ regs[r].manifest \in Manifests
              /\ regs[r].manifest.generation \in Nat
          BY <5>2, BundleAssumption DEF Manifests
        <5>4. /\ regs[r].manifest.major = 1
              /\ regs[r].manifest.generation >= regs[r].min
              /\ regs[r].onnx = regs[r].manifest.model
          BY <4>5, <4>6, <5>3 DEF Verdict
        <5> QED
          BY <4>3, <5>1, <5>3, <5>4 DEF BundleGood
      <4>7. ASSUME BundleGood(Pinned, min)
            PROVE  Verdict(regs[r]) = "Ok"
        <5>1. regs[r].manifest.generation \in Nat
          BY <4>3, <4>7, BundleAssumption DEF BundleGood
        <5> QED
          BY <4>3, <4>4, <4>5, <4>7, <5>1 DEF BundleGood, Verdict
      <4>8. BundleGood(Pinned, min) => BundleGood(Pinned, 0)
        BY <3>0, BundleAssumption DEF BundleGood
      <4> QED
        BY <4>3, <4>6, <4>7, <4>8
    <3>2. ASSUME ReadFails(r), NEW g PROVE ~BundleGood(Pinned, g)
      <4>1. PICK x \in {"manifest", "sig", "onnx"} : h = <<"read", x>>
        BY <1>1, <3>2 DEF ReadFails, At, ReaderInstr, h
      <4>2. Target(r) = x /\ files[x] = Absent
        BY <3>2, <4>1 DEF ReadFails, Unreadable, Target, PrivateFiles,
           PublicFiles, h
      <4>3. ASSUME BundleGood(Pinned, g) PROVE FALSE
        <5> DEFINE m == files["manifest"]
        <5>1. /\ m \in Manifests /\ files["sig"] = <<Pinned, m>>
              /\ files["onnx"] \in Models
          BY <4>3 DEF BundleGood, Models
        <5>2. <<Pinned, m>> \in Nat \X ManifestContents
          BY <5>1 DEF ManifestContents
        <5> QED
          BY <4>2, <5>1, <5>2, BundleAssumption
      <4> QED
        BY <4>3
    <3>3. ASSUME Parse(r), regs[r].manifest = Torn, NEW g
          PROVE  ~BundleGood(Pinned, g)
      <4>1. h[1] = "parse" /\ 1 \in 1 .. Len(prog[r])
        BY <1>1, <3>3 DEF Parse, At, h
      <4>2. ~Ahead(r, <<"read", "manifest">>)
        BY <1>1, <4>1 DEF Ahead, ShapeInv
      <4>3. files["manifest"] = Torn
        BY <1>0, <3>3, <4>2 DEF FreshInv
      <4> QED
        BY <4>3, BundleAssumption DEF BundleGood
    <3>4. CASE Judge(r)
      BY <2>4, <3>0, <3>1, <3>4
    <3>5. CASE ~Judge(r)
      <4>1. \A g : ~BundleGood(Pinned, g)
        BY <1>7, <3>2, <3>3, <3>5
      <4> QED
        BY <2>3, <3>5, <4>1
    <3> QED
      BY <3>4, <3>5
  <2> QED
    BY <2>2, <2>5, <2>6
<1> QED
  BY <1>3, <1>4, <1>5, <1>6, <1>7 DEF Step

AllReaders == \A r \in Readers : ReaderInv(r)

LEMMA NextReader ==
  ASSUME Inv, SigInv, AllReaders, [BundleNext]_bundleVars
  PROVE  AllReaders'
<1> SUFFICES ASSUME NEW r \in Readers PROVE ReaderInv(r)'
  BY DEF AllReaders
<1> ReaderInv(r)
  BY DEF AllReaders
<1>1. ASSUME NEW p \in Processes, p # r,
             \/ Command(p) \/ Step(p) \/ Abort(p)
             \/ \E c \in BOOLEAN : Open(p, c)
      PROVE  ReaderInv(r)'
  <2>1. CASE Command(p) \/ \E c \in BOOLEAN : Open(p, c)
    <3>1. PICK steps, x : Begin(p, steps, x)
      BY <2>1 DEF Command, Open, Keygen, StubOnnx, InitDev, Sign, Verify,
         Deploy, Configure
    <3>2. /\ prog'[r] = prog[r] /\ regs'[r] = regs[r]
          /\ outcome'[r] = outcome[r] /\ files' = files
          /\ alone'[r] = alone[r]
      BY <1>1, <3>1 DEF Begin, Inv, DataInv, ProgInv
    <3> QED
      BY <3>2, OtherReader
  <2>2. CASE Step(p) \/ Abort(p)
    <3>1. /\ prog'[r] = prog[r] /\ regs'[r] = regs[r]
          /\ outcome'[r] = outcome[r]
      BY <1>1, <2>2 DEF Step, Truncate, Fill, ReadFails, Read, LoadConfig, Parse,
         SignManifest, Judge, Abort, Proceed, Advance, Finish, Inv, DataInv,
         ProgInv
    <3>2. ~alone'[r] \/ (alone'[r] = alone[r] /\ files' = files)
      BY <1>1, <2>2 DEF Step, Truncate, Fill, ReadFails, Read, LoadConfig, Parse,
         SignManifest, Judge, Abort, PutFile, Inv, ProgInv
    <3> QED
      BY <3>1, <3>2, OtherReader
  <2> QED
    BY <1>1, <2>1, <2>2
<1>2. CASE UNCHANGED bundleVars
  BY <1>2, OtherReader DEF bundleVars
<1>3. CASE BundleNext
  <2>1. CASE \E p \in Packers : Command(p)
    BY <1>1, <2>1, BundleAssumption
  <2>2. CASE \E p \in Readers, c \in BOOLEAN : Open(p, c)
    BY <1>1, <2>2, OpenReader
  <2>3. CASE \E p \in Processes : Step(p) \/ Abort(p)
    BY <1>1, <2>3, OwnReader
  <2> QED
    BY <1>3, <2>1, <2>2, <2>3 DEF BundleNext
<1> QED
  BY <1>2, <1>3

\* For any number of packers and readers: a session opened while nothing else
\* was written is Active only on a released bundle, and if the configuration it
\* loads is intact exactly when that bundle meets the configured minimum,
\* whatever earlier writers left half done (from_config, verify_bundle_dir).
THEOREM SoleReader == BundleSpec => []SoleReaderIsExact
<1>1. BundleInit => AllReaders
  BY InitReader DEF AllReaders
<1>2. AllReaders => SoleReaderIsExact
  BY DEF AllReaders, ReaderInv, ExactInv, SoleReaderIsExact
<1> QED
  BY <1>1, <1>2, InitInv, NextInv, InitSig, NextSig, NextReader, PTL
     DEF BundleSpec

-----------------------------------------------------------------------------
(* Packers.                                                                *)

\* No file of F is read by the steps s.
NoReads(s, F) ==
  \A i \in 1 .. Len(s) : s[i][1] = "read" => s[i][2] \notin F

\* The command of p is not init-dev: a register that init-dev fills at the
\* beginning is empty, and will stay so.
OtherCommand(p) ==
  \/ regs[p].key = Absent /\ NoReads(prog[p], PrivateFiles)
  \/ regs[p].vkey = Pinned /\ NoReads(prog[p], PublicFiles)
  \/ regs[p].manifest = Absent /\ NoReads(prog[p], {"manifest"})

InitDevLen == 18

\* The number of steps that p has taken, if its command is init-dev.
Taken(p) == InitDevLen - Len(prog[p])

\* What is left of init-dev, and what the steps taken have put in place.
InitDevAt(p) ==
  /\ Len(prog[p]) <= InitDevLen
  /\ \A i \in 1 .. Len(prog[p]) : prog[p][i] = InitDevSteps[Taken(p) + i]
  /\ regs[p].vkey = regs[p].key /\ regs[p].min = 1
  /\ regs[p].manifest = DevManifest /\ regs[p].onnx = DevManifest.model
  /\ Taken(p) >= 8 => files["onnx"] = DevManifest.model
  /\ Taken(p) >= 10 => files["manifest"] = DevManifest
  /\ Taken(p) >= 11 => regs[p].sig = <<regs[p].key, DevManifest>>
  /\ Taken(p) >= 13 => files["sig"] = <<regs[p].key, DevManifest>>
  /\ prog[p] = <<>> => outcome[p] = "Ok"

PackerInv(p) == alone[p] => OtherCommand(p) \/ InitDevAt(p)
AllPackers == \A p \in Packers : PackerInv(p)

LEMMA NoReadsConcat ==
  ASSUME NEW s \in Seq(Instr), NEW t \in Seq(Instr), NEW F,
         NoReads(s, F), NoReads(t, F)
  PROVE  NoReads(s \o t, F)
<1>1. /\ Len(s) \in Nat /\ Len(t) \in Nat
      /\ Len(s \o t) = Len(s) + Len(t)
      /\ \A i \in 1 .. Len(s) : (s \o t)[i] = s[i]
      /\ \A i \in 1 .. Len(s) + Len(t) :
           i > Len(s) => (s \o t)[i] = t[i - Len(s)]
  OBVIOUS
<1> DEFINE u == s \o t
<1> HIDE DEF u
<1>2. ASSUME NEW i \in 1 .. Len(u), u[i][1] = "read"
      PROVE  u[i][2] \notin F
  <2>1. CASE i <= Len(s)
    <3>1. i \in 1 .. Len(s) /\ u[i] = s[i]
      BY <1>1, <1>2, <2>1 DEF u
    <3> QED
      BY <1>2, <3>1 DEF NoReads
  <2>2. CASE i > Len(s)
    <3>1. i - Len(s) \in 1 .. Len(t) /\ u[i] = t[i - Len(s)]
      BY <1>1, <1>2, <2>2 DEF u
    <3> QED
      BY <1>2, <3>1 DEF NoReads
  <2> QED
    BY <1>1, <2>1, <2>2
<1> QED
  BY <1>2 DEF NoReads, u

LEMMA NoReadsWrite == \A f, F : NoReads(Write(f), F)
<1> SUFFICES ASSUME NEW f, NEW F, NEW i \in 1 .. Len(Write(f))
             PROVE  Write(f)[i][1] # "read"
  BY DEF NoReads
<1>1. i \in {1, 2}
  BY DEF Write
<1> QED
  BY <1>1 DEF Write

\* Each other command leaves a register alone that init-dev fills.
LEMMA OtherCommandReads ==
  /\ NoReads(KeygenSteps, {"manifest"})
  /\ NoReads(StubOnnxSteps, PrivateFiles)
  /\ \A f \in PrivateFiles : NoReads(SignSteps(f), PublicFiles)
  /\ \A f \in PublicFiles \cup {"pinned"} :
       NoReads(VerifySteps(f), PrivateFiles)
  /\ NoReads(DeploySteps, PrivateFiles)
  /\ NoReads(Write("config"), PrivateFiles)
<1> DEFINE Quiet(F) == {s \in Seq(Instr) : NoReads(s, F)}
<1>1. \A F : \A s, t \in Quiet(F) : s \o t \in Quiet(F)
  BY NoReadsConcat, ConcatType
<1>2. \A F : \A f \in Files : Write(f) \in Quiet(F)
  BY NoReadsWrite, WriteType
<1>3. VerifyBundleDir \in Quiet(PrivateFiles)
  <2>1. ASSUME NEW i \in 1 .. Len(VerifyBundleDir)
        PROVE  VerifyBundleDir[i][2] \notin PrivateFiles
    <3>1. i \in {1, 2, 3, 4, 5}
      BY DEF VerifyBundleDir
    <3> QED
      BY <3>1 DEF VerifyBundleDir, PrivateFiles
  <2> QED
    BY <2>1, VerifyType DEF NoReads
<1>4. ASSUME NEW f \in PublicFiles
      PROVE  << <<"read", f>> >> \in Quiet(PrivateFiles)
  <2>1. << <<"read", f>> >> \in Seq(Instr)
    BY DEF Instr, Ops, Files
  <2>2. \A i \in 1 .. Len(<< <<"read", f>> >>) : i = 1
    OBVIOUS
  <2>3. f \notin PrivateFiles
    BY DEF PublicFiles, PrivateFiles
  <2> QED
    BY <2>1, <2>2, <2>3 DEF NoReads
<1>5. ASSUME NEW f \in PrivateFiles
      PROVE  << <<"read", f>>, <<"read", "manifest">>, <<"parse", "manifest">>,
                <<"sign", "sig">> >> \in Quiet(PublicFiles)
  <2> DEFINE s == << <<"read", f>>, <<"read", "manifest">>,
                     <<"parse", "manifest">>, <<"sign", "sig">> >>
  <2>1. s \in Seq(Instr)
    BY DEF Instr, Ops, Files
  <2>2. \A i \in 1 .. Len(s) : i \in {1, 2, 3, 4}
    OBVIOUS
  <2>3. f \notin PublicFiles
    BY DEF PublicFiles, PrivateFiles
  <2>4. \A i \in {1, 2, 3, 4} : s[i][2] \notin PublicFiles
    BY <2>3 DEF PublicFiles
  <2> QED
    BY <2>1, <2>2, <2>4 DEF NoReads
<1>6. <<>> \o VerifyBundleDir = VerifyBundleDir
  BY VerifyType
<1>7. \A F : \A s \in Quiet(F) : NoReads(s, F)
  OBVIOUS
<1> HIDE DEF Quiet
<1>8. /\ {"onnx", "manifest", "sig", "config"} \subseteq Files
      /\ {"sign.key", "sign.key.hex", "pub.key", "pub.key.hex"} \subseteq Files
  BY DEF Files, PrivateFiles, PublicFiles
<1>9. KeygenSteps \in Quiet({"manifest"})
  BY <1>1, <1>2, <1>8 DEF KeygenSteps
<1>10. StubOnnxSteps \in Quiet(PrivateFiles)
  BY <1>2, <1>8 DEF StubOnnxSteps
<1>11. \A f \in PrivateFiles : SignSteps(f) \in Quiet(PublicFiles)
  BY <1>1, <1>2, <1>5, <1>8 DEF SignSteps
<1>12. \A f \in PublicFiles \cup {"pinned"} :
         VerifySteps(f) \in Quiet(PrivateFiles)
  BY <1>1, <1>3, <1>4, <1>6 DEF VerifySteps
<1>13. DeploySteps \in Quiet(PrivateFiles)
  BY <1>1, <1>2, <1>8 DEF DeploySteps
<1> QED
  BY <1>2, <1>7, <1>8, <1>9, <1>10, <1>11, <1>12, <1>13

LEMMA ConcatParts ==
  ASSUME NEW s \in Seq(Instr), NEW t \in Seq(Instr)
  PROVE  /\ s \o t \in Seq(Instr) /\ Len(s) \in Nat /\ Len(t) \in Nat
         /\ Len(s \o t) = Len(s) + Len(t)
         /\ \A i \in 1 .. Len(s) : (s \o t)[i] = s[i]
         /\ \A i \in 1 .. Len(t) : (s \o t)[Len(s) + i] = t[i]
<1>1. /\ s \o t \in Seq(Instr) /\ Len(s) \in Nat /\ Len(t) \in Nat
      /\ Len(s \o t) = Len(s) + Len(t)
      /\ \A i \in 1 .. Len(s) : (s \o t)[i] = s[i]
  OBVIOUS
<1>2. ASSUME NEW i \in 1 .. Len(t)
      PROVE  (s \o t)[Len(s) + i] = t[i]
  <2>1. Len(s) + i \in 1 .. Len(s) + Len(t) /\ ~(Len(s) + i <= Len(s))
    BY <1>1
  <2>2. (s \o t)[Len(s) + i] = t[(Len(s) + i) - Len(s)]
    BY <2>1, <1>1
  <2>3. (Len(s) + i) - Len(s) = i
    BY <1>1
  <2> QED
    BY <2>2, <2>3
<1> QED
  BY <1>1, <1>2

\* A file written after other steps.
LEMMA WriteAfter ==
  ASSUME NEW x \in Seq(Instr), NEW f \in Files
  PROVE  /\ x \o Write(f) \in Seq(Instr)
         /\ Len(x \o Write(f)) = Len(x) + 2
         /\ \A i \in 1 .. Len(x) : (x \o Write(f))[i] = x[i]
         /\ (x \o Write(f))[Len(x) + 1] = <<"truncate", f>>
         /\ (x \o Write(f))[Len(x) + 2] = <<"fill", f>>
<1> DEFINE w == Write(f)
<1>1. /\ w \in Seq(Instr) /\ Len(w) = 2
      /\ w[1] = <<"truncate", f>> /\ w[2] = <<"fill", f>>
  BY WriteType DEF Write
<1> HIDE DEF w
<1>2. /\ x \o w \in Seq(Instr) /\ Len(x \o w) = Len(x) + Len(w)
      /\ \A i \in 1 .. Len(x) : (x \o w)[i] = x[i]
      /\ \A i \in 1 .. Len(w) : (x \o w)[Len(x) + i] = w[i]
  BY <1>1, ConcatParts
<1>3. (x \o w)[Len(x) + 1] = w[1] /\ (x \o w)[Len(x) + 2] = w[2]
  BY <1>1, <1>2
<1> QED
  BY <1>1, <1>2, <1>3 DEF w

\* The table of the steps of init-dev.
LEMMA InitDevTable ==
  LET s == InitDevSteps IN
  /\ s \in Seq(Instr) /\ Len(s) = InitDevLen
  /\ s[1] = <<"truncate", "dev_root.key">>
  /\ s[2] = <<"fill", "dev_root.key">>
  /\ s[3] = <<"truncate", "dev_root.pub">>
  /\ s[4] = <<"fill", "dev_root.pub">>
  /\ s[5] = <<"truncate", "dev_root.pub.hex">>
  /\ s[6] = <<"fill", "dev_root.pub.hex">>
  /\ s[7] = <<"truncate", "onnx">> /\ s[8] = <<"fill", "onnx">>
  /\ s[9] = <<"truncate", "manifest">> /\ s[10] = <<"fill", "manifest">>
  /\ s[11] = <<"sign", "sig">>
  /\ s[12] = <<"truncate", "sig">> /\ s[13] = <<"fill", "sig">>
  /\ s[14] = <<"read", "manifest">> /\ s[15] = <<"read", "sig">>
  /\ s[16] = <<"parse", "manifest">> /\ s[17] = <<"read", "onnx">>
  /\ s[18] = <<"judge", "manifest">>
<1> DEFINE a == Write("dev_root.key") \o Write("dev_root.pub")
           b == a \o Write("dev_root.pub.hex")
           c == b \o Write("onnx")
           d == c \o Write("manifest")
           e == d \o << <<"sign", "sig">> >>
           g == e \o Write("sig")
           s == g \o VerifyBundleDir
<1>0. InitDevSteps = s
  BY DEF InitDevSteps
<1>2. {"dev_root.key", "dev_root.pub", "dev_root.pub.hex", "onnx", "manifest",
       "sig"} \subseteq Files
  BY DEF Files, PrivateFiles, PublicFiles
<1>4. /\ a \in Seq(Instr) /\ Len(a) = 4
      /\ a[1] = <<"truncate", "dev_root.key">>
      /\ a[2] = <<"fill", "dev_root.key">>
      /\ a[3] = <<"truncate", "dev_root.pub">>
      /\ a[4] = <<"fill", "dev_root.pub">>
  <2> DEFINE w == Write("dev_root.key")
  <2>1. /\ w \in Seq(Instr) /\ Len(w) = 2
        /\ w[1] = <<"truncate", "dev_root.key">>
        /\ w[2] = <<"fill", "dev_root.key">>
    BY <1>2, WriteType DEF Write
  <2> HIDE DEF w
  <2>2. LET u == w \o Write("dev_root.pub") IN
        /\ u \in Seq(Instr) /\ Len(u) = Len(w) + 2
        /\ \A i \in 1 .. Len(w) : u[i] = w[i]
        /\ u[Len(w) + 1] = <<"truncate", "dev_root.pub">>
        /\ u[Len(w) + 2] = <<"fill", "dev_root.pub">>
    BY <1>2, <2>1, WriteAfter
  <2>3. a = w \o Write("dev_root.pub")
    BY DEF w
  <2> HIDE DEF a
  <2> QED
    BY <2>1, <2>2, <2>3
<1> HIDE DEF a
<1>5. /\ b \in Seq(Instr) /\ Len(b) = 6
      /\ \A i \in 1 .. 4 : b[i] = a[i]
      /\ b[5] = <<"truncate", "dev_root.pub.hex">>
      /\ b[6] = <<"fill", "dev_root.pub.hex">>
  <2>1. /\ b \in Seq(Instr) /\ Len(b) = Len(a) + 2
        /\ \A i \in 1 .. Len(a) : b[i] = a[i]
        /\ b[Len(a) + 1] = <<"truncate", "dev_root.pub.hex">>
        /\ b[Len(a) + 2] = <<"fill", "dev_root.pub.hex">>
    BY <1>2, <1>4, WriteAfter
  <2> HIDE DEF b
  <2> QED
    BY <1>4, <2>1
<1> HIDE DEF b
<1>6. /\ c \in Seq(Instr) /\ Len(c) = 8
      /\ \A i \in 1 .. 6 : c[i] = b[i]
      /\ c[7] = <<"truncate", "onnx">> /\ c[8] = <<"fill", "onnx">>
  <2>1. /\ c \in Seq(Instr) /\ Len(c) = Len(b) + 2
        /\ \A i \in 1 .. Len(b) : c[i] = b[i]
        /\ c[Len(b) + 1] = <<"truncate", "onnx">>
        /\ c[Len(b) + 2] = <<"fill", "onnx">>
    BY <1>2, <1>5, WriteAfter
  <2> HIDE DEF c
  <2> QED
    BY <1>5, <2>1
<1> HIDE DEF c
<1>7. /\ d \in Seq(Instr) /\ Len(d) = 10
      /\ \A i \in 1 .. 8 : d[i] = c[i]
      /\ d[9] = <<"truncate", "manifest">> /\ d[10] = <<"fill", "manifest">>
  <2>1. /\ d \in Seq(Instr) /\ Len(d) = Len(c) + 2
        /\ \A i \in 1 .. Len(c) : d[i] = c[i]
        /\ d[Len(c) + 1] = <<"truncate", "manifest">>
        /\ d[Len(c) + 2] = <<"fill", "manifest">>
    BY <1>2, <1>6, WriteAfter
  <2> HIDE DEF d
  <2> QED
    BY <1>6, <2>1
<1> HIDE DEF d
<1>8. /\ e \in Seq(Instr) /\ Len(e) = 11
      /\ \A i \in 1 .. 10 : e[i] = d[i]
      /\ e[11] = <<"sign", "sig">>
  <2>1. << <<"sign", "sig">> >> \in Seq(Instr)
    BY DEF Instr, Ops, Files
  <2> DEFINE w == << <<"sign", "sig">> >>
  <2>2. Len(w) = 1 /\ w[1] = <<"sign", "sig">>
    OBVIOUS
  <2> HIDE DEF w
  <2>3. /\ d \o w \in Seq(Instr) /\ Len(d \o w) = Len(d) + Len(w)
        /\ \A i \in 1 .. Len(d) : (d \o w)[i] = d[i]
        /\ \A i \in 1 .. Len(w) : (d \o w)[Len(d) + i] = w[i]
    BY <1>7, <2>1, ConcatParts DEF w
  <2>4. e = d \o w
    BY DEF w
  <2> HIDE DEF e
  <2>5. e[10 + 1] = w[1]
    BY <1>7, <2>2, <2>3, <2>4, SMTT(30)
  <2> QED
    BY <1>7, <2>2, <2>3, <2>4, <2>5, SMTT(30)
<1> HIDE DEF e
<1>9. /\ g \in Seq(Instr) /\ Len(g) = 13
      /\ \A i \in 1 .. 11 : g[i] = e[i]
      /\ g[12] = <<"truncate", "sig">> /\ g[13] = <<"fill", "sig">>
  <2>1. /\ g \in Seq(Instr) /\ Len(g) = Len(e) + 2
        /\ \A i \in 1 .. Len(e) : g[i] = e[i]
        /\ g[Len(e) + 1] = <<"truncate", "sig">>
        /\ g[Len(e) + 2] = <<"fill", "sig">>
    BY <1>2, <1>8, WriteAfter
  <2> HIDE DEF g
  <2> QED
    BY <1>8, <2>1
<1> HIDE DEF g
<1>10. /\ s \in Seq(Instr) /\ Len(s) = 18
       /\ \A i \in 1 .. 13 : s[i] = g[i]
       /\ s[14] = <<"read", "manifest">> /\ s[15] = <<"read", "sig">>
       /\ s[16] = <<"parse", "manifest">> /\ s[17] = <<"read", "onnx">>
       /\ s[18] = <<"judge", "manifest">>
  <2> DEFINE v == VerifyBundleDir
  <2>1. /\ v \in Seq(Instr) /\ Len(v) = 5
        /\ v[1] = <<"read", "manifest">> /\ v[2] = <<"read", "sig">>
        /\ v[3] = <<"parse", "manifest">> /\ v[4] = <<"read", "onnx">>
        /\ v[5] = <<"judge", "manifest">>
    BY VerifyType DEF VerifyBundleDir
  <2> HIDE DEF v
  <2> DEFINE u == g \o v
  <2>2. /\ u \in Seq(Instr) /\ Len(u) = 18
        /\ \A i \in 1 .. 13 : u[i] = g[i]
        /\ u[14] = v[1] /\ u[15] = v[2] /\ u[16] = v[3] /\ u[17] = v[4]
        /\ u[18] = v[5]
    <3>1. /\ u \in Seq(Instr) /\ Len(u) = Len(g) + Len(v)
          /\ \A i \in 1 .. Len(g) : u[i] = g[i]
          /\ \A i \in 1 .. Len(v) : u[Len(g) + i] = v[i]
      BY <1>9, <2>1, ConcatParts
    <3> HIDE DEF u
    <3>2. /\ u[13 + 1] = v[1] /\ u[13 + 2] = v[2] /\ u[13 + 3] = v[3]
          /\ u[13 + 4] = v[4] /\ u[13 + 5] = v[5]
      BY <1>9, <2>1, <3>1
    <3> QED
      BY <1>9, <2>1, <3>1, <3>2
  <2> HIDE DEF u
  <2>3. s = u
    BY DEF u, v
  <2> HIDE DEF s
  <2> QED
    BY <2>1, <2>2, <2>3
<1> HIDE DEF s
<1> QED
  BY <1>0, <1>4, <1>5, <1>6, <1>7, <1>8, <1>9, <1>10, SMTT(30) DEF InitDevLen

\* A step of another process, or none.
LEMMA OtherPacker ==
  ASSUME NEW p \in Packers, PackerInv(p),
         prog'[p] = prog[p], regs'[p] = regs[p], outcome'[p] = outcome[p],
         \/ ~alone'[p]
         \/ alone'[p] = alone[p] /\ files' = files
  PROVE  PackerInv(p)'
<1>1. OtherCommand(p)' <=> OtherCommand(p)
  BY DEF OtherCommand, NoReads
<1>2. CASE ~alone'[p]
  BY <1>2 DEF PackerInv
<1>3. CASE alone'[p] = alone[p] /\ files' = files
  <2>1. InitDevAt(p) => InitDevAt(p)'
    BY <1>3 DEF InitDevAt, Taken
  <2> QED
    BY <1>1, <1>3, <2>1 DEF PackerInv
<1> QED
  BY <1>2, <1>3

\* A command that p begins.
LEMMA BeginPacker ==
  ASSUME Inv, NEW p \in Packers, Command(p)
  PROVE  PackerInv(p)'
<1>0. /\ NoRegs \in RegsOf({Absent}, {0})
      /\ NoRegs.key = Absent /\ NoRegs.vkey = Pinned /\ NoRegs.manifest = Absent
  BY DEF NoRegs, RegsOf, SigContents, ModelContents, ConfigContents,
     DefaultMinimum, ManifestContents
<1>1. \A steps, r : Begin(p, steps, r) =>
        prog'[p] = steps /\ regs'[p] = r
  BY DEF Begin, Inv, DataInv, ProgInv
<1>2. CASE Keygen(p)
  <2>1. [NoRegs EXCEPT !.key = keys', !.vkey = keys'].manifest = Absent
    BY <1>0 DEF RegsOf
  <2>2. prog'[p] = KeygenSteps /\ regs'[p].manifest = Absent
    BY <1>1, <1>2, <2>1 DEF Keygen
  <2> QED
    BY <2>2, OtherCommandReads DEF PackerInv, OtherCommand, NoReads
<1>3. CASE StubOnnx(p)
  <2>1. [NoRegs EXCEPT !.onnx = DevManifest.model].key = Absent
    BY <1>0 DEF RegsOf
  <2>2. prog'[p] = StubOnnxSteps /\ regs'[p].key = Absent
    BY <1>1, <1>3, <2>1 DEF StubOnnx
  <2> QED
    BY <2>2, OtherCommandReads DEF PackerInv, OtherCommand, NoReads
<1>4. CASE \E f \in PrivateFiles : Sign(p, f)
  <2>1. PICK f \in PrivateFiles : Sign(p, f)
    BY <1>4
  <2>2. prog'[p] = SignSteps(f) /\ regs'[p].vkey = Pinned
    BY <1>0, <1>1, <2>1 DEF Sign
  <2> QED
    BY <2>2, OtherCommandReads DEF PackerInv, OtherCommand, NoReads
<1>5. CASE \E f \in PublicFiles \cup {"pinned"} : Verify(p, f)
  <2>1. PICK f \in PublicFiles \cup {"pinned"} : Verify(p, f)
    BY <1>5
  <2>2. [NoRegs EXCEPT !.min = 1].key = Absent
    BY <1>0 DEF RegsOf
  <2>3. prog'[p] = VerifySteps(f) /\ regs'[p].key = Absent
    BY <1>1, <2>1, <2>2 DEF Verify
  <2> QED
    BY <2>3, OtherCommandReads DEF PackerInv, OtherCommand, NoReads
<1>6. CASE \E m \in Releases : Deploy(p, m)
  <2>1. PICK m \in Releases : Deploy(p, m)
    BY <1>6
  <2>2. [NoRegs EXCEPT !.manifest = m, !.sig = <<Pinned, m>>,
           !.onnx = m.model].key = Absent
    BY <1>0 DEF RegsOf
  <2>3. prog'[p] = DeploySteps /\ regs'[p].key = Absent
    BY <1>1, <2>1, <2>2 DEF Deploy
  <2> QED
    BY <2>3, OtherCommandReads DEF PackerInv, OtherCommand, NoReads
<1>7. CASE \E c \in Configs : Configure(p, c)
  <2>1. PICK c \in Configs : Configure(p, c)
    BY <1>7
  <2>2. [NoRegs EXCEPT !.config = c].key = Absent
    BY <1>0 DEF RegsOf
  <2>3. prog'[p] = Write("config") /\ regs'[p].key = Absent
    BY <1>1, <2>1, <2>2 DEF Configure
  <2> QED
    BY <2>3, OtherCommandReads DEF PackerInv, OtherCommand, NoReads
<1>8. CASE InitDev(p)
  <2> DEFINE R == [NoRegs EXCEPT !.key = keys', !.vkey = keys', !.min = 1,
                     !.onnx = DevManifest.model, !.manifest = DevManifest]
  <2>1. /\ R.key = keys' /\ R.vkey = keys' /\ R.min = 1
        /\ R.manifest = DevManifest /\ R.onnx = DevManifest.model
    BY <1>0 DEF RegsOf
  <2>2. prog'[p] = InitDevSteps /\ regs'[p] = R
    BY <1>1, <1>8 DEF InitDev
  <2> HIDE DEF R
  <2>3. InitDevSteps \in Seq(Instr) /\ Len(InitDevSteps) = 18
    BY InitDevTable DEF InitDevLen
  <2>4. Taken(p)' = 0 /\ prog'[p] # <<>>
    <3>1. Taken(p)' = 18 - Len(InitDevSteps)
      BY <2>2 DEF Taken, InitDevLen
    <3> QED
      BY <2>2, <2>3, <3>1, ProgramTypes DEF Programs
  <2>5. \A i \in 1 .. 18 : 0 + i = i
    OBVIOUS
  <2>6. InitDevAt(p)'
    BY <2>1, <2>2, <2>3, <2>4, <2>5 DEF InitDevAt, InitDevLen
  <2> QED
    BY <2>6 DEF PackerInv
<1> QED
  BY <1>2, <1>3, <1>4, <1>5, <1>6, <1>7, <1>8 DEF Command

\* What a step of p does to its program and its registers.
LEMMA OwnStep ==
  ASSUME Inv, NEW p \in Processes, Step(p)
  PROVE  /\ prog[p] # <<>>
         /\ prog'[p] = Tail(prog[p]) \/ prog'[p] = <<>>
         /\ \/ regs'[p] = regs[p]
            \/ \E x \in Nat : regs'[p] = [regs[p] EXCEPT !.min = x]
            \/ \E x : regs'[p] = [regs[p] EXCEPT !.sig = x]
            \/ /\ Head(prog[p])[1] = "read"
               /\ \E x : regs'[p]
                           = [regs[p] EXCEPT ![Register(Target(p))] = x]
<1> USE DEF Inv, DataInv, ProgInv
<1>1. prog[p] # <<>>
  BY DEF Step, Truncate, Fill, ReadFails, Read, LoadConfig, Parse, SignManifest,
     Judge, At
<1>2. prog'[p] = Tail(prog[p]) \/ prog'[p] = <<>>
  BY DEF Step, Truncate, Fill, ReadFails, Read, LoadConfig, Parse, SignManifest,
     Judge, Proceed, Advance, Finish
<1>3. CASE LoadConfig(p)
  <2>1. PICK n \in LoadOrSafeDefaults(files["config"]) :
          regs' = [regs EXCEPT ![p].min = n]
    BY <1>3 DEF LoadConfig
  <2> QED
    BY <1>1, <1>2, <2>1, MinimaType
<1>4. CASE Read(p)
  <2>1. PICK x \in Readings(Target(p)) :
          regs' = [regs EXCEPT ![p][Register(Target(p))] = x]
    BY <1>4 DEF Read
  <2>2. Head(prog[p])[1] = "read"
    BY <1>4 DEF Read, At
  <2> QED
    BY <1>1, <1>2, <2>1, <2>2
<1>5. CASE SignManifest(p)
  BY <1>1, <1>2, <1>5 DEF SignManifest
<1>6. CASE Truncate(p) \/ Fill(p) \/ ReadFails(p) \/ Parse(p) \/ Judge(p)
  BY <1>1, <1>2, <1>6 DEF Truncate, Fill, ReadFails, Parse, Judge
<1> QED
  BY <1>3, <1>4, <1>5, <1>6 DEF Step

\* The other commands stay what they are.
LEMMA OwnOther ==
  ASSUME Inv, NEW p \in Processes, OtherCommand(p), Step(p)
  PROVE  OtherCommand(p)'
<1> DEFINE s == prog[p]
           t == prog'[p]
           h == Head(prog[p])
<1>1. /\ s \in Seq(Instr) /\ Len(s) \in Nat \ {0} /\ h = s[1] /\ s # <<>>
      /\ Target(p) = h[2] /\ h[2] \in Files
  <2>1. s # <<>> /\ s \in Seq(Instr)
    BY OwnStep DEF Inv, ProgInv
  <2> QED
    BY <2>1, AtType DEF Target
<1>2. ASSUME NEW F, NoReads(s, F)
      PROVE  NoReads(t, F) /\ (h[1] = "read" => h[2] \notin F)
  <2>1. CASE t = <<>>
    BY <1>1, <1>2, <2>1 DEF NoReads
  <2>2. CASE t = Tail(s)
    <3>1. /\ Len(t) = Len(s) - 1
          /\ \A i \in 1 .. Len(t) : i + 1 \in 1 .. Len(s) /\ t[i] = s[i + 1]
      BY <1>1, <2>2
    <3> HIDE DEF t
    <3> QED
      BY <1>1, <1>2, <3>1 DEF NoReads
  <2> QED
    BY <2>1, <2>2, OwnStep
<1>3. regs[p] \in RegsType
  BY DEF Inv, DataInv
<1>4. \A f \in Files : /\ Register(f) = "key" => f \in PrivateFiles
                       /\ Register(f) = "vkey" => f \in PublicFiles
                       /\ Register(f) = "manifest" => f = "manifest"
  BY DEF Register, Files
<1>5. ASSUME NEW x \in {"key", "vkey", "manifest"}, regs'[p][x] # regs[p][x]
      PROVE  h[1] = "read" /\ Register(h[2]) = x
  <2>1. regs'[p] # regs[p]
    BY <1>5
  <2>2. ASSUME NEW y PROVE [regs[p] EXCEPT !.min = y][x] = regs[p][x]
                           /\ [regs[p] EXCEPT !.sig = y][x] = regs[p][x]
    BY <1>3 DEF RegsType, RegsOf
  <2>3. ASSUME NEW y, NEW g, g # x
        PROVE  [regs[p] EXCEPT ![g] = y][x] = regs[p][x]
    BY <1>3, <2>3 DEF RegsType, RegsOf
  <2>4. /\ h[1] = "read"
        /\ \E y : regs'[p] = [regs[p] EXCEPT ![Register(h[2])] = y]
    <3>1. \A y : regs'[p] # [regs[p] EXCEPT !.min = y]
      BY <1>5, <2>2
    <3>2. \A y : regs'[p] # [regs[p] EXCEPT !.sig = y]
      BY <1>5, <2>2
    <3>3. /\ Head(prog[p])[1] = "read"
          /\ \E y : regs'[p] = [regs[p] EXCEPT ![Register(Target(p))] = y]
      BY <2>1, <3>1, <3>2, OwnStep
    <3> QED
      BY <1>1, <3>3
  <2> QED
    BY <1>5, <2>3, <2>4
<1> HIDE DEF s, t, h
<1>6. ASSUME regs[p].key = Absent, NoReads(s, PrivateFiles)
      PROVE  regs'[p].key = Absent /\ NoReads(t, PrivateFiles)
  BY <1>1, <1>2, <1>4, <1>5, <1>6
<1>7. ASSUME regs[p].vkey = Pinned, NoReads(s, PublicFiles)
      PROVE  regs'[p].vkey = Pinned /\ NoReads(t, PublicFiles)
  BY <1>1, <1>2, <1>4, <1>5, <1>7
<1>8. ASSUME regs[p].manifest = Absent, NoReads(s, {"manifest"})
      PROVE  regs'[p].manifest = Absent /\ NoReads(t, {"manifest"})
  BY <1>1, <1>2, <1>4, <1>5, <1>8
<1> QED
  BY <1>6, <1>7, <1>8 DEF OtherCommand, NoReads, s, t

\* A step of init-dev: nothing it reads is missing or torn, as it has written
\* it itself, and what it judges is what it wrote.
LEMMA OwnInitDev ==
  ASSUME Inv, NEW p \in Processes, InitDevAt(p), Step(p)
  PROVE  InitDevAt(p)'
<1> DEFINE s == prog[p]
           t == prog'[p]
           h == Head(prog[p])
           n == Taken(p)
           r == regs[p]
<1>1. /\ s \in Seq(Instr) /\ Len(s) \in Nat \ {0} /\ h = s[1] /\ s # <<>>
      /\ Target(p) = h[2] /\ h[2] \in Files /\ outcome[p] = "Running"
  <2>1. s # <<>> /\ s \in Seq(Instr)
    BY OwnStep DEF Inv, ProgInv
  <2> QED
    BY <2>1, AtType DEF Target
<1>2. n \in 0 .. 17 /\ n = 18 - Len(s) /\ h = InitDevSteps[n + 1]
  <2>1. n = 18 - Len(s) /\ Len(s) <= 18
    BY DEF InitDevAt, Taken, InitDevLen
  <2>2. s[1] = InitDevSteps[n + 1]
    BY <1>1 DEF InitDevAt
  <2>3. ASSUME NEW l \in Nat \ {0}, l <= 18
        PROVE  18 - l \in 0 .. 17
    BY <2>3
  <2>4. n \in 0 .. 17
    BY <1>1, <2>1, <2>3
  <2> QED
    BY <1>1, <2>1, <2>2, <2>4
<1>3. \/ n = 0 /\ h = <<"truncate", "dev_root.key">>
      \/ n = 1 /\ h = <<"fill", "dev_root.key">>
      \/ n = 2 /\ h = <<"truncate", "dev_root.pub">>
      \/ n = 3 /\ h = <<"fill", "dev_root.pub">>
      \/ n = 4 /\ h = <<"truncate", "dev_root.pub.hex">>
      \/ n = 5 /\ h = <<"fill", "dev_root.pub.hex">>
      \/ n = 6 /\ h = <<"truncate", "onnx">>
      \/ n = 7 /\ h = <<"fill", "onnx">>
      \/ n = 8 /\ h = <<"truncate", "manifest">>
      \/ n = 9 /\ h = <<"fill", "manifest">>
      \/ n = 10 /\ h = <<"sign", "sig">>
      \/ n = 11 /\ h = <<"truncate", "sig">>
      \/ n = 12 /\ h = <<"fill", "sig">>
      \/ n = 13 /\ h = <<"read", "manifest">>
      \/ n = 14 /\ h = <<"read", "sig">>
      \/ n = 15 /\ h = <<"parse", "manifest">>
      \/ n = 16 /\ h = <<"read", "onnx">>
      \/ n = 17 /\ h = <<"judge", "manifest">>
  <2> DEFINE k == n + 1
  <2>1. k \in 1 .. 18 /\ n = k - 1 /\ h = InitDevSteps[k]
    <3>1. \A m \in 0 .. 17 : m + 1 \in 1 .. 18 /\ (m + 1) - 1 = m
      OBVIOUS
    <3> QED
      BY <1>2, <3>1
  <2> HIDE DEF h, n, k
  <2>2. k \in {1, 2, 3, 4, 5, 6, 7, 8, 9, 10, 11, 12, 13, 14, 15, 16, 17, 18}
    BY <2>1
  <2> QED
    BY <2>1, <2>2, InitDevTable, SMTT(30)
<1>4. /\ r.vkey = r.key /\ r.min = 1
      /\ r.manifest = DevManifest /\ r.onnx = DevManifest.model
      /\ n >= 8 => files["onnx"] = DevManifest.model
      /\ n >= 10 => files["manifest"] = DevManifest
      /\ n >= 11 => r.sig = <<r.key, DevManifest>>
      /\ n >= 13 => files["sig"] = <<r.key, DevManifest>>
      /\ \A i \in 1 .. Len(s) : s[i] = InitDevSteps[n + i]
  BY DEF InitDevAt
<1>5. r \in RegsType /\ DOMAIN files = Files
  BY DEF Inv, DataInv
<1>6. r.key \in Nat /\ DevManifest \in Manifests /\ DevManifest.model \in Models
  BY <1>4, <1>5, BundleAssumption
     DEF RegsType, RegsOf, PubContents, Manifests, Models, Inv,
     DataInv
<1>7. /\ DevManifest # Absent /\ DevManifest # Torn
      /\ DevManifest.model # Absent
      /\ <<r.key, DevManifest>> # Absent
  <2>1. <<r.key, DevManifest>> \in Nat \X ManifestContents
    BY <1>6 DEF ManifestContents
  <2> QED
    BY <1>6, <2>1, BundleAssumption
\* What a step leaves behind, with the steps that follow it.
<1>8. ASSUME NEW R, regs'[p] = R, R.vkey = R.key, R.min = 1, R.key = r.key,
             R.manifest = DevManifest, R.onnx = DevManifest.model,
             n + 1 >= 8 => files'["onnx"] = DevManifest.model,
             n + 1 >= 10 => files'["manifest"] = DevManifest,
             n + 1 >= 11 => R.sig = <<r.key, DevManifest>>,
             n + 1 >= 13 => files'["sig"] = <<r.key, DevManifest>>,
             t = Tail(s), t = <<>> => outcome'[p] = "Ok"
      PROVE  InitDevAt(p)'
  <2>1. /\ Len(t) = Len(s) - 1
        /\ \A i \in 1 .. Len(t) : i + 1 \in 1 .. Len(s) /\ t[i] = s[i + 1]
    BY <1>1, <1>8
  <2>2. Taken(p)' = n + 1
    BY <1>1, <1>2, <2>1 DEF Taken, InitDevLen
  <2>3. ASSUME NEW i \in 1 .. Len(t)
        PROVE  t[i] = InitDevSteps[(n + 1) + i]
    <3>1. n + (i + 1) = (n + 1) + i
      BY <1>2
    <3> QED
      BY <1>4, <2>1, <2>3, <3>1
  <2>4. Len(t) <= InitDevLen
    <3>1. \A l \in Nat : 18 - l \in 0 .. 17 => l - 1 <= 18
      OBVIOUS
    <3> QED
      BY <1>1, <1>2, <2>1, <3>1 DEF InitDevLen
  <2> HIDE DEF n, s
  <2> QED
    BY <1>8, <2>2, <2>3, <2>4 DEF InitDevAt
<1>9. ASSUME Proceed(p)
      PROVE  t = Tail(s) /\ (t = <<>> => outcome'[p] = "Ok")
  BY <1>1, <1>9, AtType DEF Proceed, Advance, Inv, ProgInv
<1>10. CASE Truncate(p)
  <2>1. /\ h[1] = "truncate" /\ files' = [files EXCEPT ![h[2]] = Torn]
        /\ regs'[p] = r /\ Proceed(p)
    BY <1>1, <1>10 DEF Truncate, At, PutFile
  <2> HIDE DEF h, n, r, s, t
  <2>2. /\ n + 1 >= 8 => files'["onnx"] = DevManifest.model
        /\ n + 1 >= 10 => files'["manifest"] = DevManifest
        /\ n + 1 >= 11 => r.sig = <<r.key, DevManifest>>
        /\ n + 1 >= 13 => files'["sig"] = <<r.key, DevManifest>>
    BY <1>3, <1>4, <1>5, <2>1
  <2> QED
    BY <1>4, <1>8, <1>9, <2>1, <2>2
<1>11. CASE Fill(p)
  <2>1. /\ h[1] = "fill" /\ files' = [files EXCEPT ![h[2]] = r[Register(h[2])]]
        /\ regs'[p] = r /\ Proceed(p)
    BY <1>1, <1>11 DEF Fill, At, PutFile
  <2>2. /\ Register("onnx") = "onnx" /\ Register("manifest") = "manifest"
        /\ Register("sig") = "sig"
    BY DEF Register, PrivateFiles, PublicFiles
  <2>3. {"onnx", "manifest", "sig"} \subseteq Files
    BY DEF Files
  <2> HIDE DEF h, n, r, s, t
  <2>4. /\ n + 1 >= 8 => files'["onnx"] = DevManifest.model
        /\ n + 1 >= 10 => files'["manifest"] = DevManifest
        /\ n + 1 >= 11 => r.sig = <<r.key, DevManifest>>
        /\ n + 1 >= 13 => files'["sig"] = <<r.key, DevManifest>>
    BY <1>3, <1>4, <1>5, <2>1, <2>2, <2>3
  <2> QED
    BY <1>4, <1>8, <1>9, <2>1, <2>4
<1>12. CASE ReadFails(p)
  <2>1. h[1] = "read" /\ Unreadable(h[2])
    BY <1>1, <1>12 DEF ReadFails, At
  <2>2. {"manifest", "sig", "onnx"} \cap (PrivateFiles \cup PublicFiles) = {}
    BY DEF PrivateFiles, PublicFiles
  <2> HIDE DEF h, n, r, s, t
  <2>3. h[2] \in {"manifest", "sig", "onnx"} /\ n >= 13
    BY <1>3, <2>1
  <2>4. files[h[2]] = Absent
    BY <2>1, <2>2, <2>3 DEF Unreadable
  <2> QED
    <3>1. /\ files["onnx"] = DevManifest.model
          /\ files["manifest"] = DevManifest
          /\ files["sig"] = <<r.key, DevManifest>>
      BY <1>2, <1>4, <2>3
    <3> QED
      BY <1>7, <2>3, <2>4, <3>1
<1>13. CASE Read(p)
  <2>0. /\ h[1] = "read" /\ files' = files /\ Proceed(p)
        /\ \E x \in Readings(h[2]) :
             regs'[p] = [r EXCEPT ![Register(h[2])] = x]
    BY <1>1, <1>13 DEF Read, At, Inv, DataInv
  <2>1. /\ h[1] = "read" /\ files' = files /\ Proceed(p)
        /\ regs'[p] = [r EXCEPT ![Register(h[2])] = files[h[2]]]
    <3> HIDE DEF h, n, r
    <3>1. h[2] \in {"manifest", "sig", "onnx"}
      BY <1>3, <2>0
    <3>2. Readings(h[2]) \subseteq {files[h[2]]}
      BY <3>1 DEF Readings, Unreadable, PrivateFiles, PublicFiles, HexFiles
    <3> QED
      BY <2>0, <3>2
  <2>2. /\ Register("onnx") = "onnx" /\ Register("manifest") = "manifest"
        /\ Register("sig") = "sig"
    BY DEF Register, PrivateFiles, PublicFiles
  <2> HIDE DEF h, n, s, t
  <2>3. h[2] \in {"manifest", "sig", "onnx"} /\ n >= 13
    BY <1>3, <2>1
  <2> DEFINE R == [r EXCEPT ![Register(h[2])] = files[h[2]]]
  <2>4. Register(h[2]) = h[2]
    BY <2>2, <2>3
  <2>5. files[h[2]] = r[h[2]]
    <3> HIDE DEF r
    <3>1. /\ files["onnx"] = r.onnx /\ files["manifest"] = r.manifest
          /\ files["sig"] = r.sig
      BY <1>2, <1>4, <2>3
    <3> QED
      BY <2>3, <3>1
  <2>6. R = r
    BY <1>5, <2>4, <2>5 DEF RegsType, RegsOf
  <2> HIDE DEF r, R
  <2> QED
    BY <1>2, <1>4, <1>8, <1>9, <2>1, <2>3, <2>6 DEF R
<1>14. CASE Parse(p)
  <2>1. /\ h[1] = "parse" /\ files' = files /\ regs'[p] = r /\ Proceed(p)
    BY <1>1, <1>4, <1>7, <1>14 DEF Parse, At
  <2> HIDE DEF h, n, r, s, t
  <2>2. n = 15
    BY <1>3, <2>1
  <2> QED
    BY <1>4, <1>8, <1>9, <2>1, <2>2
<1>15. CASE SignManifest(p)
  <2>1. /\ h[1] = "sign" /\ files' = files /\ Proceed(p)
        /\ regs'[p] = [r EXCEPT !.sig = <<r.key, r.manifest>>]
    BY <1>1, <1>15 DEF SignManifest, At, Inv, DataInv
  <2> DEFINE R == [r EXCEPT !.sig = <<r.key, r.manifest>>]
  <2>2. /\ R.vkey = r.vkey /\ R.key = r.key /\ R.min = r.min
        /\ R.manifest = r.manifest /\ R.onnx = r.onnx
        /\ R.sig = <<r.key, r.manifest>>
    BY <1>5 DEF RegsType, RegsOf
  <2> HIDE DEF h, n, r, s, t, R
  <2>3. n = 10
    BY <1>3, <2>1
  <2>4. regs'[p] = R
    BY <2>1 DEF R
  <2> QED
    BY <1>4, <1>8, <1>9, <2>1, <2>2, <2>3, <2>4
<1>16. CASE Judge(p)
  <2>1. /\ h[1] = "judge" /\ files' = files /\ regs'[p] = r
        /\ t = <<>> /\ outcome'[p] = Verdict(r)
    BY <1>1, <1>16 DEF Judge, At, Finish, Inv, ProgInv
  <2>2. n = 17
    <3> HIDE DEF h, n
    <3> QED
      BY <1>3, <2>1
  <2>3. Verdict(r) = "Ok"
    BY <1>4, <2>2, DevManifestAssumption DEF Verdict
  <2>4. t = Tail(s)
    BY <1>1, <1>2, <2>1, <2>2, AtType
  <2> HIDE DEF h, n, r, s, t
  <2> QED
    BY <1>4, <1>8, <2>1, <2>2, <2>3, <2>4
<1>17. ~LoadConfig(p)
  <2>1. LoadConfig(p) => h[1] = "load"
    BY DEF LoadConfig, At
  <2> HIDE DEF h, n
  <2> QED
    BY <1>3, <2>1
<1> QED
  BY <1>10, <1>11, <1>12, <1>13, <1>14, <1>15, <1>16, <1>17 DEF Step

LEMMA NextPacker ==
  ASSUME Inv, AllPackers, [BundleNext]_bundleVars
  PROVE  AllPackers'
<1> SUFFICES ASSUME NEW p \in Packers PROVE PackerInv(p)'
  BY DEF AllPackers
<1> PackerInv(p)
  BY DEF AllPackers
<1>1. CASE UNCHANGED bundleVars
  BY <1>1, OtherPacker DEF bundleVars
<1>2. ASSUME NEW q \in Processes, q # p,
             Command(q) \/ \E c \in BOOLEAN : Open(q, c)
      PROVE  PackerInv(p)'
  <2>1. PICK steps, x : Begin(q, steps, x)
    BY <1>2 DEF Command, Open, Keygen, StubOnnx, InitDev, Sign, Verify,
       Deploy, Configure
  <2>2. /\ prog'[p] = prog[p] /\ regs'[p] = regs[p]
        /\ outcome'[p] = outcome[p] /\ files' = files
        /\ alone'[p] = alone[p]
    BY <1>2, <2>1 DEF Begin, Inv, DataInv, ProgInv
  <2> QED
    BY <2>2, OtherPacker
<1>3. ASSUME NEW q \in Processes, q # p, Step(q) \/ Abort(q)
      PROVE  PackerInv(p)'
  <2>1. /\ prog'[p] = prog[p] /\ regs'[p] = regs[p]
        /\ outcome'[p] = outcome[p]
    BY <1>3 DEF Step, Truncate, Fill, ReadFails, Read, LoadConfig, Parse,
       SignManifest, Judge, Abort, Proceed, Advance, Finish, Inv, DataInv,
       ProgInv
  <2>2. ~alone'[p] \/ (alone'[p] = alone[p] /\ files' = files)
    BY <1>3 DEF Step, Truncate, Fill, ReadFails, Read, LoadConfig, Parse,
       SignManifest, Judge, Abort, PutFile, Inv, ProgInv
  <2> QED
    BY <2>1, <2>2, OtherPacker
<1>4. ASSUME Step(p) PROVE PackerInv(p)'
  <2>1. alone'[p] => alone[p]
    BY <1>4 DEF Step, Truncate, Fill, ReadFails, Read, LoadConfig, Parse,
       SignManifest, Judge, PutFile
  <2>2. alone[p] => OtherCommand(p)' \/ InitDevAt(p)'
    BY <1>4, OwnOther, OwnInitDev DEF PackerInv
  <2> QED
    BY <2>1, <2>2 DEF PackerInv
<1>5. ASSUME Abort(p) PROVE PackerInv(p)'
  BY <1>5 DEF Abort, PackerInv, Inv, ProgInv
<1>6. CASE BundleNext
  <2>1. CASE \E q \in Packers : Command(q)
    BY <1>2, <2>1, BeginPacker
  <2>2. CASE \E q \in Readers, c \in BOOLEAN : Open(q, c)
    BY <1>2, <2>2, BundleAssumption
  <2>3. CASE \E q \in Processes : Step(q) \/ Abort(q)
    BY <1>3, <1>4, <1>5, <2>3
  <2> QED
    BY <1>6, <2>1, <2>2, <2>3 DEF BundleNext
<1> QED
  BY <1>1, <1>6

\* For any number of packers and readers: init-dev, run by itself to its end,
\* leaves a bundle that verifies under its new key, whatever commands that died
\* half way have left in the directory (create_dev_bundle).
THEOREM InitDevRecovers == BundleSpec => []InitDevRepairs
<1>1. BundleInit => AllPackers
  BY DEF BundleInit, AllPackers, PackerInv
<1>2. Inv /\ AllPackers => InitDevRepairs
  <2> SUFFICES ASSUME Inv, AllPackers, NEW p \in Packers,
                      alone[p], prog[p] = <<>>, regs[p].key # Absent,
                      regs[p].vkey = regs[p].key, regs[p].manifest # Absent
               PROVE  outcome[p] = "Ok" /\ BundleGood(regs[p].vkey, 1)
    BY DEF InitDevRepairs
  <2>1. regs[p].key # Pinned
    BY BundleAssumption DEF Inv, DataInv, RegsType, RegsOf, KeyContents
  <2>2. InitDevAt(p)
    BY <2>1 DEF AllPackers, PackerInv, OtherCommand
  <2>3. Taken(p) = 18
    BY DEF Taken, InitDevLen
  <2>4. /\ files["onnx"] = DevManifest.model
        /\ files["manifest"] = DevManifest
        /\ files["sig"] = <<regs[p].key, DevManifest>>
        /\ outcome[p] = "Ok"
    BY <2>2, <2>3 DEF InitDevAt
  <2>5. DevManifest \in Manifests
    BY DEF Manifests
  <2> QED
    BY <2>4, <2>5, DevManifestAssumption DEF BundleGood
<1> QED
  BY <1>1, <1>2, InitInv, NextInv, NextPacker, PTL DEF BundleSpec
=============================================================================
