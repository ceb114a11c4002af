--------------------------- MODULE ProcessProofs ---------------------------
(***************************************************************************)
(* The fingerprint and the media key never change once they were used, for *)
(* any number of faults and starts.  The invariants tie what was used to   *)
(* what is on disk, and say that the files are written only before that.   *)
(***************************************************************************)
EXTENDS Process, TLAPS

\* Unless a Stat failed, a fingerprint that was logged is that of the complete
\* pair on disk, and the steps that write the pair come before the first that logs.
PairOnDisk ==
    blind \/ /\ \A p \in logged : p = cert /\ cert = key /\ cert > 0
             /\ pc \in {"openCert", "writeCert", "openKey", "writeKey"} => logged = {}
             /\ pc = "log" => pair = cert /\ cert = key /\ cert > 0

\* A media key that was used is the one on disk, and the steps that write it come
\* before its first use.
MediaKeyOnDisk ==
    /\ \A k \in signing : k = mediaKey /\ mediaKey > 0
    /\ pc \in {"openMediaKey", "writeMediaKey"} => signing = {} /\ random > 0
    /\ pc = "mediaCache" => signer = mediaKey /\ mediaKey > 0

Inv == random \in Nat /\ PairOnDisk /\ MediaKeyOnDisk

\* Nothing was logged or signed before the first start.
LEMMA InitInv == Init => Inv
BY DEF Init, Inv, PairOnDisk, MediaKeyOnDisk

\* The end of the process, however it comes about, changes no file.
LEMMA GoneInv == ASSUME Inv, NEW to \in Down, Gone(to)
                 PROVE  Inv'
BY DEF Inv, PairOnDisk, MediaKeyOnDisk, Gone, Down, files, history

\* EnsureSelfSigned replaces a file of the pair only while none was logged.
LEMMA PairStep ==
    ASSUME Inv,
           StatPair \/ OpenCert \/ WriteCert \/ OpenKey \/ WriteKey \/ Reload \/ LogFingerprint
    PROVE  Inv'
<1> USE DEF Inv, PairOnDisk, MediaKeyOnDisk, files, memory, history, Absent, Torn
<1>1. ASSUME LoadX509KeyPair
      PROVE  Inv'
    BY <1>1, GoneInv DEF LoadX509KeyPair, Refuse, Down
<1>2. CASE StatPair
    BY <1>1, <1>2 DEF StatPair, GeneratePair
<1>3. CASE OpenCert \/ OpenKey
    BY <1>3 DEF OpenCert, OpenKey
<1>4. CASE WriteCert \/ WriteKey
    BY <1>4 DEF WriteCert, WriteKey
<1>5. CASE Reload
    BY <1>1, <1>5 DEF Reload
<1>6. CASE LogFingerprint
    BY <1>6 DEF LogFingerprint
<1>7. QED
    BY <1>2, <1>3, <1>4, <1>5, <1>6

\* loadOrCreateMediaKey replaces the file only while no key was used.
LEMMA MediaKeyStep ==
    ASSUME Inv, ReadMediaKey \/ OpenMediaKey \/ WriteMediaKey \/ Serve
    PROVE  Inv'
<1> USE DEF Inv, PairOnDisk, MediaKeyOnDisk, files, memory, history, Absent, Torn
<1>1. CASE ReadMediaKey
    <2>1. CASE mediaKey > 0
        BY <1>1, <2>1 DEF ReadMediaKey, MediaKeyIs
    <2>2. CASE mediaKey = Torn /\ Refuse
        BY <2>2, GoneInv DEF Refuse, Down
    <2>3. CASE mediaKey = Absent
        BY <1>1, <2>3 DEF ReadMediaKey
    <2>4. QED
        BY <1>1, <2>1, <2>2, <2>3 DEF ReadMediaKey
<1>2. CASE OpenMediaKey
    BY <1>2 DEF OpenMediaKey
<1>3. CASE WriteMediaKey
    BY <1>3 DEF WriteMediaKey, MediaKeyIs
<1>4. CASE Serve
    BY <1>4 DEF Serve
<1>5. QED
    BY <1>1, <1>2, <1>3, <1>4

\* Every step of the daemon and of systemd keeps the invariant.
LEMMA NextInv == Inv /\ [Next]_vars => Inv'
<1> SUFFICES ASSUME Inv, [Next]_vars
             PROVE  Inv'
    OBVIOUS
<1> USE DEF Inv, PairOnDisk, MediaKeyOnDisk, files, memory, history
<1>1. CASE Start
    BY <1>1 DEF Start, Down
<1>2. CASE Crash
    BY <1>2, GoneInv DEF Crash, Down
<1>3. CASE StatFails
    BY <1>3 DEF StatFails, GeneratePair
<1>4. ASSUME NEW at, CallFails(at)
      PROVE  Inv'
    BY <1>4, GoneInv DEF CallFails, Down
<1>5. CASE SignalEarly
    BY <1>5, GoneInv DEF SignalEarly, Down
<1>6. CASE Signal \/ RunEnds \/ HttpFails \/ Select
    BY <1>6 DEF Signal, RunEnds, HttpFails, Select
<1>7. CASE Exit
    BY <1>7, GoneInv DEF Exit, Down
<1>8. CASE UNCHANGED vars
    BY <1>8 DEF vars
<1>9. QED
    BY <1>1, <1>2, <1>3, <1>4, <1>5, <1>6, <1>7, <1>8, PairStep, MediaKeyStep DEF Next, Main

\* What was logged or signed with is on disk, whenever the process ends.
THEOREM ProcessInvariant == Spec => []Inv
BY InitInv, NextInv, PTL DEF Spec

\* A pinned fingerprint is never replaced by EnsureSelfSigned, whatever crashes.
THEOREM ProcessFingerprintStable == Spec => []FingerprintStable
<1>1. Inv => FingerprintStable
    BY DEF Inv, PairOnDisk, FingerprintStable
<1>2. QED
    BY <1>1, ProcessInvariant, PTL

\* Media ids that were handed out stay valid after every restart.
THEOREM ProcessMediaKeyStable == Spec => []MediaKeyStable
<1>1. Inv => MediaKeyStable
    BY DEF Inv, MediaKeyOnDisk, MediaKeyStable
<1>2. QED
    BY <1>1, ProcessInvariant, PTL

-----------------------------------------------------------------------------
(* The types, in parts: no leaf below changes two of them. *)

Places ==
    pc \in Down \cup {"tls", "openCert", "writeCert", "openKey", "writeKey", "reload",
                      "log", "mediaKey", "openMediaKey", "writeMediaKey", "mediaCache",
                      "select", "shutdown"}

Flags == run \in BOOLEAN /\ http \in BOOLEAN /\ signalled \in BOOLEAN /\ blind \in BOOLEAN

Secrets ==
    /\ random \in Nat
    /\ cert \in Torn..random /\ key \in Torn..random /\ mediaKey \in Torn..random
    /\ pair \in 0..random /\ signer \in 0..random

Bounds == faults \in 0..MAX_FAULTS /\ starts \in 0..MAX_STARTS

Uses ==
    /\ logged \subseteq 1..random /\ signing \subseteq 1..random

\* The goroutines of main and the errors they left never exceed the room in errCh,
\* and there are none before main starts them.
ErrorsFit ==
    /\ errCh \in Nat /\ errCh <= 2
    /\ run /\ http => errCh = 0
    /\ run \/ http => errCh <= 1
    /\ pc \notin {"select", "shutdown"} => ~run /\ ~http /\ errCh = 0

\* A secret was drawn before it is written, loaded or used.
Drawn ==
    /\ pc \in {"openCert", "writeCert", "openKey", "writeKey", "openMediaKey", "writeMediaKey"}
           => random > 0
    /\ pc = "log" => pair > 0
    /\ pc = "mediaCache" => signer > 0

TypeInv == Places /\ Flags /\ Secrets /\ Uses /\ Bounds /\ ErrorsFit /\ Drawn

\* Control stays at the places main and systemd have, flags stay flags.
LEMMA PlacesStep == Places /\ Flags /\ [Next]_vars => Places' /\ Flags'
<1> SUFFICES ASSUME Places, Flags, [Next]_vars
             PROVE  Places' /\ Flags'
    OBVIOUS
<1> USE DEF Places, Flags, Down, files, memory, serving, history, LoadX509KeyPair, Refuse,
            GeneratePair, Gone
<1>1. CASE StatPair \/ StatFails \/ Reload
    BY <1>1 DEF StatPair, StatFails, Reload
<1>2. CASE OpenCert \/ WriteCert \/ OpenKey \/ WriteKey \/ LogFingerprint
    BY <1>2 DEF OpenCert, WriteCert, OpenKey, WriteKey, LogFingerprint
<1>3. CASE ReadMediaKey \/ OpenMediaKey \/ WriteMediaKey \/ Serve
    BY <1>3 DEF ReadMediaKey, OpenMediaKey, WriteMediaKey, MediaKeyIs, Serve
<1>4. CASE Start \/ Select \/ Exit
    BY <1>4 DEF Start, Select, Exit
<1>5. CASE Crash \/ SignalEarly \/ \E at : CallFails(at)
    BY <1>5 DEF Crash, SignalEarly, CallFails
<1>6. CASE Signal \/ RunEnds \/ HttpFails
    BY <1>6 DEF Signal, RunEnds, HttpFails
<1>7. CASE UNCHANGED vars
    BY <1>7 DEF vars
<1>8. QED
    BY <1>1, <1>2, <1>3, <1>4, <1>5, <1>6, <1>7 DEF Next, Main

\* Files and memory hold secrets that were drawn.
LEMMA SecretsStep == Secrets /\ Drawn /\ [Next]_vars => Secrets' /\ Drawn'
<1> SUFFICES ASSUME Secrets, Drawn, [Next]_vars
             PROVE  Secrets' /\ Drawn'
    OBVIOUS
<1> USE DEF Secrets, Drawn, Down, Absent, Torn, files, memory
<1>1. ASSUME NEW to \in Down, Gone(to)
      PROVE  Secrets' /\ Drawn'
    BY <1>1 DEF Gone
<1>2. CASE LoadX509KeyPair
    BY <1>1, <1>2 DEF LoadX509KeyPair, Refuse
<1>3. CASE Start
    BY <1>3 DEF Start
<1>4. CASE StatPair \/ StatFails
    BY <1>2, <1>4 DEF StatPair, StatFails, GeneratePair
<1>5. CASE OpenCert \/ WriteCert \/ OpenKey \/ WriteKey
    BY <1>5 DEF OpenCert, WriteCert, OpenKey, WriteKey
<1>6. CASE Reload \/ LogFingerprint
    BY <1>2, <1>6 DEF Reload, LogFingerprint
<1>7. CASE ReadMediaKey
    BY <1>1, <1>7 DEF ReadMediaKey, MediaKeyIs, Refuse
<1>8. CASE OpenMediaKey \/ WriteMediaKey \/ Serve
    BY <1>8 DEF OpenMediaKey, WriteMediaKey, MediaKeyIs, Serve
<1>9. CASE Select \/ Signal \/ RunEnds \/ HttpFails
    BY <1>9 DEF Select, Signal, RunEnds, HttpFails
<1>10. CASE Exit \/ SignalEarly \/ Crash \/ \E at : CallFails(at)
    BY <1>1, <1>10 DEF Exit, SignalEarly, Crash, CallFails
<1>11. CASE UNCHANGED vars
    BY <1>11 DEF vars
<1>12. QED
    BY <1>3, <1>4, <1>5, <1>6, <1>7, <1>8, <1>9, <1>10, <1>11 DEF Next, Main

\* What is logged or signed with was drawn: random only grows.
LEMMA UsesStep == Secrets /\ Drawn /\ Uses /\ [Next]_vars => Uses'
<1> SUFFICES ASSUME Secrets, Drawn, Uses, [Next]_vars
             PROVE  Uses'
    OBVIOUS
<1> USE DEF history, LoadX509KeyPair, Refuse, GeneratePair, Gone
<1>1. random \in Nat /\ pair \in 0..random /\ signer \in 0..random
    BY DEF Secrets
<1>2. ASSUME random' = random \/ random' = random + 1, UNCHANGED <<logged, signing>>
      PROVE  Uses'
    BY <1>1, <1>2 DEF Uses
<1>3. CASE LogFingerprint
    <2>1. pair \in 1..random
        BY <1>1, <1>3 DEF LogFingerprint, Drawn
    <2>2. random' = random /\ logged' = logged \cup {pair} /\ signing' = signing
        BY <1>3 DEF LogFingerprint
    <2>3. QED
        BY <2>1, <2>2 DEF Uses
<1>4. CASE Serve
    <2>1. signer \in 1..random
        BY <1>1, <1>4 DEF Serve, Drawn
    <2>2. random' = random /\ logged' = logged /\ signing' = signing \cup {signer}
        BY <1>4 DEF Serve
    <2>3. QED
        BY <2>1, <2>2 DEF Uses
<1>5. CASE StatPair \/ StatFails \/ Reload
    BY <1>2, <1>5 DEF StatPair, StatFails, Reload
<1>6. CASE OpenCert \/ WriteCert \/ OpenKey \/ WriteKey
    BY <1>2, <1>6 DEF OpenCert, WriteCert, OpenKey, WriteKey
<1>7. CASE ReadMediaKey \/ OpenMediaKey \/ WriteMediaKey
    BY <1>2, <1>7 DEF ReadMediaKey, OpenMediaKey, WriteMediaKey
<1>8. CASE Start \/ Exit \/ Crash \/ SignalEarly \/ \E at : CallFails(at)
    BY <1>2, <1>8 DEF Start, Exit, Crash, SignalEarly, CallFails
<1>9. CASE Select \/ Signal \/ RunEnds \/ HttpFails
    BY <1>2, <1>9 DEF Select, Signal, RunEnds, HttpFails
<1>10. CASE UNCHANGED vars
    BY <1>2, <1>10 DEF vars
<1>11. QED
    BY <1>3, <1>4, <1>5, <1>6, <1>7, <1>8, <1>9, <1>10 DEF Next, Main

\* Every fault and every start is counted below its bound.
LEMMA BoundsStep == Bounds /\ [Next]_vars => Bounds'
<1> SUFFICES ASSUME Bounds, [Next]_vars
             PROVE  Bounds'
    OBVIOUS
<1> USE ProcessAssumption
        DEF Bounds, bounds, Fault, LoadX509KeyPair, Refuse, GeneratePair
<1>1. CASE StatPair \/ StatFails \/ Reload
    BY <1>1 DEF StatPair, StatFails, Reload
<1>2. CASE OpenCert \/ WriteCert \/ OpenKey \/ WriteKey \/ LogFingerprint
    BY <1>2 DEF OpenCert, WriteCert, OpenKey, WriteKey, LogFingerprint
<1>3. CASE ReadMediaKey \/ OpenMediaKey \/ WriteMediaKey \/ Serve
    BY <1>3 DEF ReadMediaKey, OpenMediaKey, WriteMediaKey, Serve
<1>4. CASE Start \/ Exit \/ Crash \/ SignalEarly \/ \E at : CallFails(at)
    BY <1>4 DEF Start, Exit, Crash, SignalEarly, CallFails
<1>5. CASE Select \/ Signal \/ RunEnds \/ HttpFails
    BY <1>5 DEF Select, Signal, RunEnds, HttpFails
<1>6. CASE UNCHANGED vars
    BY <1>6 DEF vars
<1>7. QED
    BY <1>1, <1>2, <1>3, <1>4, <1>5, <1>6 DEF Next, Main

\* Each of the two goroutines of main leaves one error at most.
LEMMA ErrorsStep == ErrorsFit /\ [Next]_vars => ErrorsFit'
<1> SUFFICES ASSUME ErrorsFit, [Next]_vars
             PROVE  ErrorsFit'
    OBVIOUS
<1> USE DEF ErrorsFit, Down, serving, LoadX509KeyPair, Refuse, GeneratePair, Gone
<1>1. CASE StatPair \/ StatFails \/ Reload
    BY <1>1 DEF StatPair, StatFails, Reload
<1>2. CASE OpenCert \/ WriteCert \/ OpenKey \/ WriteKey \/ LogFingerprint
    BY <1>2 DEF OpenCert, WriteCert, OpenKey, WriteKey, LogFingerprint
<1>3. CASE ReadMediaKey \/ OpenMediaKey \/ WriteMediaKey \/ Serve
    BY <1>3 DEF ReadMediaKey, OpenMediaKey, WriteMediaKey, MediaKeyIs, Serve
<1>4. CASE Start \/ Exit \/ Crash \/ SignalEarly \/ \E at : CallFails(at)
    BY <1>4 DEF Start, Exit, Crash, SignalEarly, CallFails
<1>5. CASE Select \/ Signal
    BY <1>5 DEF Select, Signal
<1>6. CASE RunEnds \/ HttpFails
    BY <1>6 DEF RunEnds, HttpFails
<1>7. CASE UNCHANGED vars
    BY <1>7 DEF vars
<1>8. QED
    BY <1>1, <1>2, <1>3, <1>4, <1>5, <1>6, <1>7 DEF Next, Main

\* The variables of main keep their types for every bound: in particular errCh, made
\* with room for two errors, never needs more, so that no goroutine blocks on it.
THEOREM ProcessTypeOK == Spec => []TypeOK
<1>1. Init => TypeInv
    <2> USE ProcessAssumption DEF Init
    <2>1. Init => Places /\ Flags
        BY DEF Places, Flags, Down
    <2>2. Init => Secrets /\ Drawn
        BY DEF Secrets, Drawn, Absent, Torn
    <2>3. Init => Uses /\ Bounds
        BY DEF Uses, Bounds
    <2>4. Init => ErrorsFit
        BY DEF ErrorsFit
    <2>5. QED
        BY <2>1, <2>2, <2>3, <2>4 DEF TypeInv
<1>2. TypeInv /\ [Next]_vars => TypeInv'
    BY PlacesStep, SecretsStep, UsesStep, BoundsStep, ErrorsStep DEF TypeInv
<1>3. TypeInv => TypeOK
    <2>1. ErrorsFit => errCh \in 0..2
        BY DEF ErrorsFit
    <2>2. QED
        BY <2>1 DEF TypeInv, Places, Flags, Secrets, Uses, Bounds, TypeOK
<1>4. QED
    BY <1>1, <1>2, <1>3, PTL DEF Spec

=============================================================================
