------------------------------ MODULE Process ------------------------------
(***************************************************************************)
(* The life of the daemon: main (cmd/tg-bridge/main.go) loads or creates   *)
(* the TLS pair (internal/tlsutil/tlsutil.go) and the media key            *)
(* (internal/bridge/mediakey.go), starts Bridge.Run and the HTTP server,   *)
(* and ends on a signal or on the first error.  systemd starts it again    *)
(* after a failure (systemd/tg-bridge.service: Restart=on-failure).        *)
(*                                                                         *)
(* A file is Absent, Torn (created or truncated, not written to the end)   *)
(* or the number of the random secret it holds.  The certificate and the   *)
(* key of one pair have the same number.  Nobody else touches the files.   *)
(***************************************************************************)
EXTENDS Integers, FiniteSets

CONSTANTS MAX_FAULTS,  \* bound on crashes and failing calls
          MAX_STARTS   \* bound on starts after a clean exit

ASSUME ProcessAssumption == MAX_FAULTS \in Nat /\ MAX_STARTS \in Nat

Absent == 0
Torn   == -1

VARIABLES
    pc,        \* where main is; "backoff" and "inactive" are states of the unit
    cert,      \* the file at tls.cert_path
    key,       \* the file at tls.key_path
    mediaKey,  \* session_dir/media.key
    random,    \* the last secret drawn
    pair,      \* the TLS pair in memory
    signer,    \* the media key in memory
    run,       \* Bridge.Run is running
    http,      \* ListenAndServe is running
    errCh,     \* number of errors in errCh
    signalled, \* the signal context is done
    blind,     \* history: some Stat failed on a file that is there
    faults,    \* number of crashes and failed calls
    starts,    \* number of starts after a clean exit
    logged,    \* history: pairs whose fingerprint was logged
    signing    \* history: media keys that media ids were signed with

files   == <<cert, key, mediaKey>>
serving == <<run, http, errCh, signalled>>
memory  == <<pair, signer>>
history == <<logged, signing, blind>>
bounds  == <<faults, starts>>
vars    == <<pc, files, random, memory, serving, bounds, history>>

Down == {"backoff", "inactive"}

Init ==
    /\ pc = "inactive"
    /\ cert = Absent /\ key = Absent /\ mediaKey = Absent
    /\ random = 0 /\ pair = 0 /\ signer = 0
    /\ run = FALSE /\ http = FALSE /\ errCh = 0 /\ signalled = FALSE
    /\ faults = 0 /\ starts = 0
    /\ logged = {} /\ signing = {} /\ blind = FALSE

\* One more of the bounded faults.
Fault == faults < MAX_FAULTS /\ faults' = faults + 1 /\ UNCHANGED starts

-----------------------------------------------------------------------------
(* systemd *)

\* The operator starts the unit, or RestartSec has passed.
Start ==
    /\ pc \in Down
    /\ pc = "inactive" => starts < MAX_STARTS
    /\ starts' = IF pc = "inactive" THEN starts + 1 ELSE starts
    /\ pc' = "tls"
    /\ UNCHANGED <<files, random, memory, serving, faults, history>>

\* The process ends, whatever it was doing.
Gone(to) ==
    /\ pc' = to
    /\ run' = FALSE /\ http' = FALSE /\ errCh' = 0 /\ signalled' = FALSE
    /\ pair' = 0 /\ signer' = 0
    /\ UNCHANGED <<files, random, history>>

\* It is killed or panics.
Crash ==
    /\ pc \notin Down
    /\ Fault
    /\ Gone("backoff")

\* os.Exit(1) after an error that is due to the files alone.
Refuse == Gone("backoff") /\ UNCHANGED bounds

\* os.Exit(1) after a call that failed.
CallFails(at) == pc \in at /\ Fault /\ Gone("backoff")

-----------------------------------------------------------------------------
(* EnsureSelfSigned *)

\* A pair loads when both files are complete and belong together.
LoadX509KeyPair ==
    IF cert > 0 /\ cert = key
    THEN pair' = cert /\ pc' = "log" /\ UNCHANGED <<files, random, signer, serving, bounds, history>>
    ELSE Refuse

\* ecdsa.GenerateKey and CreateCertificate.
GeneratePair ==
    /\ random' = random + 1
    /\ pc' = "openCert"
    /\ UNCHANGED <<files, memory, serving, logged, signing>>

\* A check that looks for the certificate only.
StatCertOnly ==
    /\ pc = "tls"
    /\ IF cert # Absent THEN LoadX509KeyPair ELSE GeneratePair /\ UNCHANGED <<bounds, blind>>

\* Stat of both files.
StatPair ==
    /\ pc = "tls"
    /\ IF cert # Absent /\ key # Absent THEN LoadX509KeyPair ELSE GeneratePair /\ UNCHANGED <<bounds, blind>>

\* A Stat that fails on a file that is there: the code takes any error for a
\* missing file.
StatFails ==
    /\ pc = "tls" /\ cert # Absent /\ key # Absent
    /\ Fault
    /\ blind' = TRUE
    /\ GeneratePair

\* writePEM of the certificate: open and truncate, then encode.
OpenCert ==
    /\ pc = "openCert"
    /\ cert' = Torn
    /\ pc' = "writeCert"
    /\ UNCHANGED <<key, mediaKey, random, memory, serving, bounds, history>>

\* A certificate whose fingerprint is logged before its key is written.
WriteCertAndLog ==
    /\ pc = "writeCert"
    /\ cert' = random
    /\ logged' = logged \cup {random}
    /\ pc' = "openKey"
    /\ UNCHANGED <<key, mediaKey, random, memory, serving, bounds, signing, blind>>

WriteCert ==
    /\ pc = "writeCert"
    /\ cert' = random
    /\ pc' = "openKey"
    /\ UNCHANGED <<key, mediaKey, random, memory, serving, bounds, history>>

\* writePEM of the private key.
OpenKey ==
    /\ pc = "openKey"
    /\ key' = Torn
    /\ pc' = "writeKey"
    /\ UNCHANGED <<cert, mediaKey, random, memory, serving, bounds, history>>

WriteKey ==
    /\ pc = "writeKey"
    /\ key' = random
    /\ pc' = "reload"
    /\ UNCHANGED <<cert, mediaKey, random, memory, serving, bounds, history>>

Reload == pc = "reload" /\ LoadX509KeyPair

\* "tls ready", with the fingerprint.
LogFingerprint ==
    /\ pc = "log"
    /\ logged' = logged \cup {pair}
    /\ pc' = "mediaKey"
    /\ UNCHANGED <<files, random, memory, serving, bounds, signing, blind>>

-----------------------------------------------------------------------------
(* bridge.New and loadOrCreateMediaKey *)

\* loadOrCreateMediaKey returns k.
MediaKeyIs(k) ==
    /\ signer' = k
    /\ pc' = "mediaCache"

\* ReadFile, with its three outcomes.
ReadMediaKey ==
    /\ pc = "mediaKey"
    /\ \/ /\ mediaKey > 0
          /\ MediaKeyIs(mediaKey)
          /\ UNCHANGED <<files, random, pair, serving, bounds, history>>
       \/ mediaKey = Torn /\ Refuse
       \/ /\ mediaKey = Absent
          /\ random' = random + 1
          /\ pc' = "openMediaKey"
          /\ UNCHANGED <<files, memory, serving, bounds, history>>

\* A key that is returned although its file could not be created.
OpenMediaKeyOptional ==
    /\ pc = "openMediaKey"
    /\ MediaKeyIs(random)
    /\ UNCHANGED <<files, random, pair, serving, bounds, history>>

\* WriteFile: open and truncate, then write.
OpenMediaKey ==
    /\ pc = "openMediaKey"
    /\ mediaKey' = Torn
    /\ pc' = "writeMediaKey"
    /\ UNCHANGED <<cert, key, random, memory, serving, bounds, history>>

WriteMediaKey ==
    /\ pc = "writeMediaKey"
    /\ mediaKey' = random
    /\ MediaKeyIs(random)
    /\ UNCHANGED <<cert, key, random, pair, serving, bounds, history>>

\* newMediaCache and the rest of New; main asks for signals and starts its two
\* goroutines.  Media ids are signed with the key in memory from now on.
Serve ==
    /\ pc = "mediaCache"
    /\ signing' = signing \cup {signer}
    /\ run' = TRUE /\ http' = TRUE
    /\ pc' = "select"
    /\ UNCHANGED <<files, random, memory, errCh, signalled, bounds, logged, blind>>

-----------------------------------------------------------------------------
(* main, once it has started *)

\* SIGINT or SIGTERM before main asks to be notified: the process ends, which
\* systemd takes for a clean exit.
SignalEarly ==
    /\ pc \notin Down \cup {"select", "shutdown"}
    /\ Gone("inactive")
    /\ UNCHANGED bounds

\* SIGINT or SIGTERM.
Signal ==
    /\ pc \in {"select", "shutdown"} /\ ~signalled
    /\ signalled' = TRUE
    /\ UNCHANGED <<pc, files, random, memory, run, http, errCh, bounds, history>>

\* A Run that is called again after an error.
RunRetries ==
    /\ pc \in {"select", "shutdown"} /\ run
    /\ Fault /\ errCh' = errCh + 1
    /\ UNCHANGED <<pc, files, random, memory, run, http, signalled, history>>

\* Run returns: with nil or context.Canceled, which leaves no error in errCh and,
\* without a signal, main waiting; else with an error.
RunEnds ==
    /\ pc \in {"select", "shutdown"} /\ run
    /\ run' = FALSE
    /\ \/ UNCHANGED <<errCh, bounds>>
       \/ Fault /\ errCh' = errCh + 1
    /\ UNCHANGED <<pc, files, random, memory, http, signalled, history>>

\* ListenAndServe fails.
HttpFails ==
    /\ pc \in {"select", "shutdown"} /\ http
    /\ http' = FALSE
    /\ Fault /\ errCh' = errCh + 1
    /\ UNCHANGED <<pc, files, random, memory, run, signalled, history>>

\* The select of main.
Select ==
    /\ pc = "select"
    /\ signalled \/ errCh > 0
    /\ errCh' \in (IF signalled THEN {errCh} ELSE {}) \cup (IF errCh > 0 THEN {errCh - 1} ELSE {})
    /\ pc' = "shutdown"
    /\ UNCHANGED <<files, random, memory, run, http, signalled, bounds, history>>

\* Shutdown, the deferred Close, and the return of main: exit status 0.
Exit ==
    /\ pc = "shutdown"
    /\ Gone("inactive")
    /\ UNCHANGED bounds

-----------------------------------------------------------------------------
Main ==
    \/ StatPair \/ OpenCert \/ WriteCert \/ OpenKey \/ WriteKey \/ Reload \/ LogFingerprint
    \/ ReadMediaKey \/ OpenMediaKey \/ WriteMediaKey \/ Serve
    \/ Select \/ Exit

Next ==
    \/ Start
    \/ Main
    \/ Crash \/ StatFails
    \/ CallFails({"tls", "openCert", "writeCert", "openKey", "writeKey", "reload", "mediaKey",
                  "openMediaKey", "writeMediaKey", "mediaCache"})
    \/ Signal \/ SignalEarly \/ RunEnds \/ HttpFails

Spec == Init /\ [][Next]_vars

\* main goes on, and systemd restarts a failed unit.  Operators, faults and
\* signals are free.
FairSpec == Spec /\ WF_vars(Main) /\ WF_vars(Start /\ pc = "backoff")

-----------------------------------------------------------------------------
\* Types of the variables; a pair and a media key are numbers of secrets drawn.
TypeOK ==
    /\ pc \in Down \cup {"tls", "openCert", "writeCert", "openKey", "writeKey", "reload",
                         "log", "mediaKey", "openMediaKey", "writeMediaKey", "mediaCache",
                         "select", "shutdown"}
    /\ random \in Nat
    /\ cert \in Torn..random /\ key \in Torn..random /\ mediaKey \in Torn..random
    /\ pair \in 0..random /\ signer \in 0..random
    /\ run \in BOOLEAN /\ http \in BOOLEAN /\ signalled \in BOOLEAN /\ blind \in BOOLEAN
    /\ errCh \in 0..2
    /\ faults \in 0..MAX_FAULTS /\ starts \in 0..MAX_STARTS
    /\ logged \subseteq 1..random /\ signing \subseteq 1..random

\* A fingerprint that was logged, and perhaps pinned in firmware, is that of every
\* later start: a crash in the middle of EnsureSelfSigned can change the pair only
\* before main has logged it.  The exception is a Stat that failed on a file that
\* is there: EnsureSelfSigned then replaces the pair.
FingerprintStable == blind \/ \A p, q \in logged : p = q

\* Media ids stay valid over restarts: one key signs them all ("a stable 32-byte
\* secret").
MediaKeyStable == \A k, l \in signing : k = l

\* After any number of crashes and failed calls the daemon gets back to work,
\* unless one of them hit the write of the private key or of the media key and
\* left a torn file, or a failed Stat led to a pair that was replaced half.  A torn
\* certificate alone is repaired by the next start.
Recovers ==
    []<>(pc \in {"select", "shutdown", "inactive"} \/ key = Torn \/ mediaKey = Torn \/ blind)

\* "Restart=on-failure" (systemd/tg-bridge.service): a daemon that ends because of
\* what main logs as a fatal error is started again.
RestartedAfterFatal ==
    (pc = "select" /\ errCh > 0 /\ ~signalled) ~> (pc = "tls" \/ signalled)

=============================================================================
