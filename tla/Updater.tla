------------------------------ MODULE Updater -------------------------------
(* The agent's updater on one machine: the engine of the running agent, its  *)
(* files, the watchdog of every install, and processes that end at any step. *)
(* Versions are numbered; 1 is installed first and 0 is none.                *)
EXTENDS Naturals, Sequences, FiniteSets

CONSTANTS
    MaxVersion,
    MaxChecks, MaxConsiders, MaxSets, \* what windows, the timer and the user ask for
    MaxCrashes,  \* processes that end where they stand, or do not end in time
    MaxErrors    \* I/O errors the code reports or logs and goes on from

ASSUME BoundsAreNat ==
    /\ MaxVersion \in Nat \ {0}
    /\ MaxChecks \in Nat /\ MaxConsiders \in Nat /\ MaxSets \in Nat
    /\ MaxCrashes \in Nat /\ MaxErrors \in Nat

VARIABLES
    mac,         \* installed as the menu-bar app: it swaps the bundle
    works,       \* does the version start and answer
    latest,      \* the release GitHub calls the latest
    target, backup, incoming, \* the executable, .previous and .incoming
    cache,       \* the version whose verified form is in the updater's directory
    failed,      \* versions with a failure marker
    stored,      \* the auto-install setting in the agent's store
    setting,     \* settings stored, not yet the engine's
    engine,      \* the running agent, version 0 when none
    signedIn,
    watch,       \* the watchdog of each version
    handed,      \* images the menu-bar app was given and has not settled
    rolled,      \* versions a watchdog put the previous one back for, or the app gave up on
    retried,     \* of these, the ones installed again without being asked
    overlap,     \* an install or an agent began under the watch of an earlier install
    errors,      \* the I/O errors so far, each with the version it was about
    checks, considers, sets, crashes

vars == <<mac, works, latest, target, backup, incoming, cache, failed, stored, setting, engine,
          signedIn, watch, handed, rolled, retried, overlap, errors, checks, considers, sets, crashes>>

fileVars == <<target, backup, incoming>>
settingVars == <<stored, setting, sets>>
pastVars == <<rolled, retried, overlap, errors>>
hostVars == <<mac, works, latest, crashes>>

Versions == 1 .. MaxVersion
NoWatch == [at |-> "none", child |-> "none"]

-----------------------------------------------------------------------------
(* What is decided without state. *)

is_upgrade(current, candidate) == candidate > current

\* A tag names a version or (0) nothing the updater installs.
candidate(release, current) ==
    IF release.draft \/ release.prerelease \/ release.tag = 0 \/ ~is_upgrade(current, release.tag)
    THEN 0 ELSE release.tag

url_allowed(url) == url.https /\ ~url.credentials /\ ~url.port /\ url.host = "github"

\* The asset is taken only from where this release's asset of that name lives.
asset(release, name) ==
    {a \in release.assets : a.name = name /\ a.at = [tag |-> release.tag, name |-> name]}

install_kind(f) ==
    CASE f.os = "mac" /\ f.in_bundle -> IF f.launched_by_app THEN "MacApp" ELSE "Unknown"
      [] f.os = "linux" /\ f.dpkg_owned -> "Deb"
      [] f.os = "windows" -> "Msi"
      [] f.os = "other" \/ ~f.replaceable -> "Unknown"
      [] f.os = "linux" /\ f.appimage -> "AppImage"
      [] OTHER -> "Binary"

\* The method of an install, or a link for the user to follow.
plan(kind, os, arch) ==
    CASE kind = "MacApp" -> "MacApp"
      [] kind = "Binary" /\ (arch = "x64" \/ (os = "mac" /\ arch = "arm64")) -> "Tarball"
      [] kind = "AppImage" /\ arch = "x64" -> "AppImage"
      [] OTHER -> "LinkOnly"

\* Who would put a staged version in place; LinkOnly refuses.
installer_for(kind, method) ==
    CASE method = "LinkOnly" -> "LinkOnly"
      [] kind = "MacApp" -> "MacAppHandoff"
      [] kind \in {"Binary", "AppImage"} -> "SelfReplace"
      [] OTHER -> "LinkOnly"

\* What the agent may find out about its own install.
gather ==
    [os : {"mac", "linux", "windows", "other"}, in_bundle : BOOLEAN, launched_by_app : BOOLEAN,
     dpkg_owned : BOOLEAN, replaceable : BOOLEAN, appimage : BOOLEAN]

\* sig: the asset's .mldsa.sig, <<>> when the release has none; it is over a tag,
\* a name and a digest.
check_signature(tag, name, actual, sig) ==
    CASE sig = <<>> -> "Missing"
      [] sig = <<[tag |-> tag, name |-> name, sha |-> actual]>> -> "Verified"
      [] OTHER -> "Refused"

\* The first line that names the file decides; none does, or its digest is none: <<>>.
expected_sha256(lines, name) ==
    LET named == {i \in 1 .. Len(lines) : lines[i].name = name}
        line == lines[CHOOSE i \in named : \A j \in named : i <= j]
    IN  IF named = {} THEN <<>> ELSE IF line.sha = "malformed" THEN <<>> ELSE <<line.sha>>

judge_download(current, version, signature, same_sha, provenance, method) ==
    CASE signature # "Verified" -> "Refuse"
      [] ~is_upgrade(current, version) -> "Refuse"
      [] ~same_sha -> "Refuse"
      [] provenance = "Verified" -> "Accept"
      [] provenance = "Failed" -> "Refuse"
      [] method = "MacApp" -> "Accept"
      [] OTHER -> "LinkOnly"

\* printed: what the staged copy says its version is, <<>> when it was not run.
judge_staged(version, printed, method) ==
    IF (printed = <<>> /\ method = "MacApp") \/ printed = <<version>> THEN "Accept" ELSE "Refuse"

identity_allowed(identity) == identity \in {"master", "tag"}
verify_one(bundle) == bundle.verified /\ identity_allowed(bundle.identity)

\* One bundle of the release's own workflow is enough; one that is there and
\* does not verify is not the same as none.
verify(bundles) ==
    CASE bundles = {} -> "Absent"
      [] \E b \in bundles : verify_one(b) -> "Verified"
      [] OTHER -> "Failed"

\* The attestations are asked for only once signature and checksum agree.
fetch_and_verify(f, method) ==
    LET expected == expected_sha256(f.sums, "asset")
        signature == check_signature(f.version, "asset", f.actual, f.sig)
        provenance == IF signature = "Verified" /\ expected = <<f.actual>> THEN verify(f.bundles) ELSE "Absent"
        verdict == judge_download(f.current, f.version, signature, expected[1] = f.actual, provenance, method)
    IN  CASE f.sig = <<>> \/ expected = <<>> -> "Refuse"
          [] verdict # "Accept" -> verdict
          [] OTHER -> judge_staged(f.version, f.printed, method)

decide(s) ==
    /\ s.ready
    /\ s.trigger = "Idle" => s.auto_install /\ ~s.signed_in /\ ~s.failed_before

\* A download is staged only where its signature is this release's for this file,
\* the checksum file's first line for it agrees, it is an upgrade and, but for the
\* app's image, it is attested and says the version it should (fetch.rs, verify.rs).
ASSUME OnlyTheRelease ==
    \A sig \in {<<>>} \cup {<<s>> : s \in [tag : 2 .. 3, name : {"asset", "other"}, sha : {"a", "b"}]},
       sums \in {<<x, y>> : x, y \in [name : {"asset", "other"}, sha : {"a", "b", "malformed"}]},
       version \in 2 .. 3, actual \in {"a", "b"},
       bundles \in SUBSET {[verified |-> v, identity |-> i] : v \in BOOLEAN, i \in {"tag", "other"}},
       printed \in {<<>>, <<2>>, <<3>>}, method \in {"MacApp", "Tarball", "AppImage"} :
        fetch_and_verify([current |-> 2, version |-> version, sig |-> sig, sums |-> sums, actual |-> actual,
                          bundles |-> bundles, printed |-> printed], method) = "Accept" =>
            /\ version = 3 /\ sig = <<[tag |-> 3, name |-> "asset", sha |-> actual]>>
            /\ \E i \in 1 .. 2 : sums[i] = [name |-> "asset", sha |-> actual]
            /\ method # "MacApp" => verify(bundles) = "Verified" /\ printed = <<3>>
            /\ verify(bundles) # "Failed"

\* Nothing dpkg or the Windows installer put there, and nothing this user cannot
\* write beside, is replaced by the agent (platform.rs).
ASSUME OnlyOwnInstalls ==
    \A f \in gather, arch \in {"x64", "arm64", "other"} :
        installer_for(install_kind(f), plan(install_kind(f), f.os, arch)) # "LinkOnly" =>
            /\ f.os \in {"mac", "linux"}
            /\ f.os = "linux" => ~f.dpkg_owned /\ f.replaceable
            /\ ~(f.os = "mac" /\ f.in_bundle) => f.replaceable

-----------------------------------------------------------------------------
(* An agent's start and end *)

\* load_settings; the setting is on where nobody set it.
started(v, set) ==
    [run |-> v, offer |-> 0, staged |-> FALSE, settled |-> FALSE, auto |-> set # "off", at |-> "idle",
     trigger |-> "Idle", ready |-> FALSE, auto_install |-> FALSE, failed_before |-> FALSE, again |-> FALSE, of |-> 0]
Down == started(0, "unset")

Running == engine.run # 0
Idle == Running /\ engine.at = "idle"
goto(at) == engine' = [engine EXCEPT !.at = at]
released == goto("idle")

Init ==
    /\ mac \in BOOLEAN
    /\ works \in {w \in [Versions -> BOOLEAN] : w[1]}
    /\ latest = 1
    /\ target = 1 /\ backup = 0 /\ incoming = 0
    /\ cache = 0 /\ failed = {}
    /\ stored = "unset" /\ setting = {}
    /\ engine = started(1, "unset")
    /\ signedIn = FALSE
    /\ watch = [v \in Versions |-> NoWatch]
    /\ handed = {}
    /\ rolled = {} /\ retried = {} /\ overlap = FALSE /\ errors = {}
    /\ checks = 0 /\ considers = 0 /\ sets = 0 /\ crashes = 0

Publish ==
    /\ latest < MaxVersion
    /\ latest' = latest + 1
    /\ UNCHANGED <<mac, works, fileVars, cache, failed, settingVars, engine, signedIn, watch, handed,
                   pastVars, checks, considers, crashes>>

-----------------------------------------------------------------------------
(* check, holding busy *)

Check ==
    /\ Idle /\ checks < MaxChecks
    /\ checks' = checks + 1
    /\ LET version == candidate([draft |-> FALSE, prerelease |-> FALSE, tag |-> latest], engine.run)
       IN  \/ UNCHANGED engine
           \/ /\ version = 0
              /\ engine' = [engine EXCEPT !.offer = 0, !.staged = FALSE, !.settled = FALSE]
           \/ version # 0 /\ engine.offer = version /\ engine.settled /\ UNCHANGED engine
           \/ /\ version # 0 /\ ~(engine.offer = version /\ engine.settled)
              /\ engine' = [engine EXCEPT !.at = "prepare", !.of = version]
    /\ UNCHANGED <<hostVars, fileVars, cache, failed, settingVars, signedIn, watch, handed, pastVars, considers>>

\* What was staged for another version goes; then the files are downloaded.
download_path ==
    /\ engine.at = "prepare"
    /\ cache' = IF cache = engine.of THEN cache ELSE 0
    /\ goto("download")
    /\ UNCHANGED <<hostVars, fileVars, failed, settingVars, signedIn, watch, handed, pastVars, checks, considers>>

stage == cache' = engine.of
discard == cache' = 0

\* What fetch_and_verify may come to: the network or the disk may fail it.
Fetched == {"staged", "transient", "refused"}

\* Its end: staged; or discarded, to be tried again or not.
prepare(outcome) ==
    /\ engine.at = "download"
    /\ IF outcome = "staged" THEN stage ELSE discard
    /\ engine' = [engine EXCEPT !.at = "idle", !.offer = engine.of, !.staged = (outcome = "staged"),
                                !.settled = (outcome # "transient")]
    /\ UNCHANGED <<hostVars, fileVars, failed, settingVars, signedIn, watch, handed, pastVars, checks, considers>>

-----------------------------------------------------------------------------
(* consider, holding busy: the offer, the setting and the marker are read,   *)
(* the staged agent is asked whether it would start, the sessions are read.  *)

failed_marker(v) == v \in failed

\* The staged agent, asked whether it would start: it answers in time or it does not.
check_launch == BOOLEAN

consider(trigger) ==
    /\ Idle /\ considers < MaxConsiders
    /\ considers' = considers + 1
    /\ engine' = [engine EXCEPT !.at = "consider", !.trigger = trigger, !.ready = engine.staged, !.of = engine.offer,
                                !.auto_install = engine.auto,
                                !.failed_before = failed_marker(engine.offer), !.again = engine.offer \in rolled]
    /\ UNCHANGED <<hostVars, fileVars, cache, failed, settingVars, signedIn, watch, handed, pastVars, checks>>

Decide(can_install) ==
    /\ engine.at = "consider"
    /\ IF decide([trigger |-> engine.trigger, ready |-> engine.ready /\ can_install, signed_in |-> signedIn,
                  auto_install |-> engine.auto_install, failed_before |-> engine.failed_before])
       THEN /\ retried' = IF engine.trigger = "Idle" /\ engine.again THEN retried \cup {engine.of} ELSE retried
            /\ IF mac THEN handed' = handed \cup {engine.of} /\ released
                      ELSE goto("copy") /\ UNCHANGED handed
       ELSE released /\ UNCHANGED <<retried, handed>>
    /\ UNCHANGED <<hostVars, fileVars, cache, failed, settingVars, signedIn, watch, rolled, overlap, errors, checks, considers>>

Watched == \E v \in Versions : watch[v].at # "none"

installing == UNCHANGED <<hostVars, cache, failed, settingVars, signedIn, handed, rolled, retried, checks, considers>>

\* swap_in.  On an error the incoming copy goes and the target is as it was.
SwapFails ==
    /\ engine.at \in {"copy", "keep", "link", "put"}
    /\ incoming' = 0
    /\ released
    /\ installing /\ UNCHANGED <<target, backup, watch, overlap, errors>>

SwapCopies ==
    /\ engine.at = "copy" /\ cache = engine.of
    /\ incoming' = engine.of
    /\ goto("keep")
    /\ installing /\ UNCHANGED <<target, backup, watch, overlap, errors>>

SwapForgets ==
    /\ engine.at = "keep"
    /\ backup' = 0
    /\ goto("link")
    /\ installing /\ UNCHANGED <<target, incoming, watch, overlap, errors>>

\* The target moved away, not linked.
SwapMoves ==
    /\ engine.at = "link"
    /\ backup' = target /\ target' = 0
    /\ goto("put")
    /\ installing /\ UNCHANGED <<incoming, watch, overlap, errors>>

SwapKeeps ==
    /\ engine.at = "link"
    /\ backup' = target
    /\ goto("put")
    /\ installing /\ UNCHANGED <<target, incoming, watch, overlap, errors>>

SwapPuts ==
    /\ engine.at = "put"
    /\ target' = incoming /\ incoming' = 0
    /\ goto("spawn")
    /\ installing /\ UNCHANGED <<backup, watch, overlap, errors>>

\* An I/O error that changes nothing else.
Error(what, v) == Cardinality(errors) < MaxErrors /\ errors' = errors \cup {[what |-> what, of |-> v]}
Erred(whats) == \E e \in errors : e.what \in whats

\* rename(backup, target): an error where there is no backup, or where the disk refuses.
restored(v) ==
    \/ backup # 0 /\ target' = backup /\ backup' = 0 /\ UNCHANGED errors
    \/ backup # 0 /\ Error("restore", v) /\ UNCHANGED <<target, backup>>
    \/ backup = 0 /\ UNCHANGED <<target, backup, errors>>

\* The watchdog has it, and this process exits; or it did not start, and the
\* previous version goes back; or its plan could not be written down, and the new
\* version stays.
StartWatchdog ==
    /\ engine.at = "spawn"
    /\ \/ /\ backup # 0
          /\ watch' = [watch EXCEPT ![engine.of] = [at |-> "await", child |-> "none"]]
          /\ overlap' = (overlap \/ Watched)
          /\ goto("exit")
          /\ UNCHANGED <<fileVars, errors>>
       \/ /\ restored(engine.of)
          /\ released
          /\ UNCHANGED <<incoming, watch, overlap>>
       \/ /\ Error("plan", engine.of)
          /\ released
          /\ UNCHANGED <<fileVars, watch, overlap>>
    /\ installing

\* What ends with the process: every session and all the engine knew.
ended == engine' = Down /\ signedIn' = FALSE /\ setting' = {}

Exits ==
    /\ engine.at = "exit"
    /\ ended
    /\ UNCHANGED <<hostVars, fileVars, cache, failed, stored, sets, watch, handed, pastVars, checks, considers>>

-----------------------------------------------------------------------------
(* The watchdog of v *)

watching(v, at) == watch' = [watch EXCEPT ![v].at = at]
watchesOnly == UNCHANGED <<hostVars, cache, stored, sets, handed, retried, overlap, checks, considers>>

\* The old agent is still there when its time is up: nothing is started.
ParentStuck(v) ==
    /\ watch[v].at = "await" /\ engine.at = "exit" /\ crashes < MaxCrashes
    /\ crashes' = crashes + 1
    /\ watching(v, "stuck")
    /\ UNCHANGED <<mac, works, latest, cache, stored, sets, handed, pastVars, checks, considers,
                   fileVars, failed, setting, engine, signedIn>>

SpawnNew(v) ==
    /\ watch[v].at = "await" /\ engine.at # "exit"
    /\ \/ watch' = [watch EXCEPT ![v] = [at |-> "health", child |-> "starting"]]
       \/ watching(v, "mark")
    /\ watchesOnly /\ UNCHANGED <<fileVars, failed, setting, engine, signedIn, rolled, errors>>

\* The child binds and runs, or ends: it does not work, or the port is taken.
ChildStarts(v) ==
    /\ watch[v].at \in {"health", "kill"} /\ watch[v].child = "starting"
    /\ IF works[target] /\ ~Running
       THEN /\ engine' = started(target, stored)
            /\ watch' = [watch EXCEPT ![v].child = "bound"]
       ELSE /\ watch' = [watch EXCEPT ![v].child = "exited"]
            /\ UNCHANGED engine
    /\ watchesOnly /\ UNCHANGED <<fileVars, failed, setting, signedIn, rolled, errors>>

\* child.exited, then the socket, then the deadline.
Probe(v) ==
    /\ watch[v].at = "health"
    /\ IF watch[v].child # "exited" /\ Running
       THEN watch' = [watch EXCEPT ![v] = NoWatch]
       ELSE watching(v, "kill")
    /\ watchesOnly /\ UNCHANGED <<fileVars, failed, setting, engine, signedIn, rolled, errors>>

Kill(v) ==
    /\ watch[v].at = "kill"
    /\ IF watch[v].child = "bound" THEN ended ELSE UNCHANGED <<engine, signedIn, setting>>
    /\ watch' = [watch EXCEPT ![v] = [at |-> "mark", child |-> "none"]]
    /\ watchesOnly /\ UNCHANGED <<fileVars, failed, rolled, errors>>

\* restore: the marker, then the rename; then the previous version is started.
mark_failed(v) ==
    \/ failed' = failed \cup {v} /\ UNCHANGED errors
    \/ Error("marker", v) /\ UNCHANGED failed

Mark(v) ==
    /\ watch[v].at \in {"mark", "stuck"}
    /\ mark_failed(v)
    /\ watching(v, IF watch[v].at = "mark" THEN "put" ELSE "putOnly")
    /\ watchesOnly /\ UNCHANGED <<fileVars, setting, engine, signedIn, rolled>>

PutBack(v) ==
    /\ watch[v].at \in {"put", "putOnly"}
    /\ restored(v)
    /\ rolled' = rolled \cup {v}
    /\ watch' = [watch EXCEPT ![v] = IF watch[v].at = "put" THEN [at |-> "respawn", child |-> "none"] ELSE NoWatch]
    /\ watchesOnly /\ UNCHANGED <<incoming, failed, setting, engine, signedIn>>

Respawn(v) ==
    /\ watch[v].at = "respawn"
    /\ \/ engine' = (IF ~Running /\ works[target] THEN started(target, stored) ELSE engine) /\ UNCHANGED errors
       \/ Error("respawn", v) /\ UNCHANGED engine
    /\ watch' = [watch EXCEPT ![v] = NoWatch]
    /\ watchesOnly /\ UNCHANGED <<fileVars, failed, setting, signedIn, rolled>>

-----------------------------------------------------------------------------
(* The menu-bar app, the windows and the machine *)

\* The app has the verified image: it stops the agent and starts the new one.
AppInstalls(v) ==
    /\ v \in handed /\ works[v]
    /\ handed' = handed \ {v}
    /\ target' = v
    /\ engine' = started(v, stored) /\ signedIn' = FALSE /\ setting' = {}
    /\ UNCHANGED <<hostVars, backup, incoming, cache, failed, stored, sets, watch, pastVars, checks, considers>>

install_failed(v) ==
    /\ v \in handed /\ Running
    /\ handed' = handed \ {v}
    /\ mark_failed(v) /\ rolled' = rolled \cup {v}
    /\ UNCHANGED <<hostVars, fileVars, cache, settingVars, engine, signedIn, watch, retried, overlap, checks, considers>>

\* Saved, and then the engine's.
set_auto_install(on) ==
    /\ Running /\ engine.at # "exit" /\ sets < MaxSets
    /\ sets' = sets + 1
    /\ stored' = on /\ setting' = setting \cup {on}
    /\ UNCHANGED <<hostVars, fileVars, cache, failed, engine, signedIn, watch, handed, pastVars, checks, considers>>

SettingHeld(on) ==
    /\ on \in setting
    /\ setting' = setting \ {on}
    /\ engine' = [engine EXCEPT !.auto = (on = "on")]
    /\ UNCHANGED <<hostVars, fileVars, cache, failed, stored, sets, signedIn, watch, handed, pastVars, checks, considers>>

Sessions ==
    /\ Running /\ signedIn' = ~signedIn
    /\ UNCHANGED <<hostVars, fileVars, cache, failed, settingVars, engine, watch, handed, pastVars, checks, considers>>

\* A crash, a kill or the machine's end; the files stay as they are.
Crash ==
    /\ crashes < MaxCrashes /\ crashes' = crashes + 1
    /\ \/ Running /\ ended /\ UNCHANGED watch
       \/ Running /\ ended /\ watch' = [v \in Versions |-> NoWatch]
       \/ /\ \E v \in Versions : watch[v].at # "none" /\ watch' = [watch EXCEPT ![v] = NoWatch]
          /\ UNCHANGED <<engine, signedIn, setting>>
    /\ UNCHANGED <<mac, works, latest, fileVars, cache, failed, stored, sets, handed, pastVars, checks, considers>>

\* The user starts the agent again, at any time; while a watchdog is there, too.
Restart ==
    /\ ~Running /\ works[target]
    /\ engine' = started(target, stored)
    /\ overlap' = (overlap \/ Watched)
    /\ UNCHANGED <<hostVars, fileVars, cache, failed, settingVars, signedIn, watch, handed, rolled, retried, errors,
                   checks, considers>>

\* The timer's loop; UpdateCheckNow does the same once.
run == Check \/ consider("Idle")

handle ==
    \/ run
    \/ consider("UserAsked")
    \/ \E on \in {"on", "off"} : set_auto_install(on)
    \/ \E v \in Versions : install_failed(v)

Next ==
    \/ Publish \/ handle \/ download_path
    \/ \E outcome \in Fetched : prepare(outcome)
    \/ \E can_install \in check_launch : Decide(can_install)
    \/ SwapFails \/ SwapCopies \/ SwapForgets \/ SwapKeeps \/ SwapPuts \/ StartWatchdog \/ Exits
    \/ \E v \in Versions :
          \/ ParentStuck(v) \/ SpawnNew(v) \/ ChildStarts(v) \/ Probe(v) \/ Kill(v) \/ Mark(v)
          \/ PutBack(v) \/ Respawn(v) \/ AppInstalls(v)
    \/ \E on \in {"on", "off"} : SettingHeld(on)
    \/ Sessions \/ Crash \/ Restart

Spec == Init /\ [][Next]_vars

-----------------------------------------------------------------------------
\* Whatever ends where, a whole agent is at the target; and one that does not work
\* is there only while the agent that put it there or its watchdog is, where no
\* process was cut short, nothing began under another's watch, the previous version
\* could be put back and the watchdog's plan written down (swap.rs).
TargetRuns ==
    /\ target # 0
    /\ ~mac /\ ~works[target] =>
          Watched \/ engine.at = "spawn" \/ crashes > 0 \/ overlap \/ Erred({"restore", "plan"})

\* A version that was put back or that the app could not install is not installed
\* again by itself, whatever ended or started meanwhile, if its marker could be
\* written: the marker is there before the agent that would read it (watchdog.rs,
\* policy.rs).
NoInstallLoop == \A v \in retried : [what |-> "marker", of |-> v] \in errors

\* A staged offer's files are there whenever it may be installed, though the
\* next release's download removes them (engine.rs, busy).
StagedIsThere == engine.staged /\ engine.at \in {"idle", "consider", "copy"} => cache = engine.offer

\* After an install, with no crash, no agent slow to exit, nothing begun under
\* another's watch and no I/O error of these, an agent runs or a watchdog will start
\* one (watchdog.rs).
AgentIsUp == Running \/ Watched \/ crashes > 0 \/ overlap \/ Erred({"restore", "plan", "respawn"})

\* What the code does not keep (README): an agent is up though one install began
\* under the watch of another,
AgentIsUpThen == Running \/ Watched \/ crashes > 0 \/ Erred({"restore", "plan", "respawn"})

\* an agent is up, and a version is not tried again by itself, whatever error was only logged,
AgentIsUpAnyway == Running \/ Watched \/ crashes > 0 \/ overlap
NoInstallLoopAnyway == retried = {}

\* an automatic install ends no session,
AutoInstallSignsNobodyOut == engine.at = "exit" /\ engine.trigger = "Idle" => ~signedIn

\* and what the store holds is what the engine goes by.
SettingAgrees == Running /\ setting = {} => engine.auto = (stored # "off")

\* All of them: an update leaves a working agent, once, whatever process ends where
\* (engine.rs, swap.rs, watchdog.rs).
UpdaterSound == TargetRuns /\ NoInstallLoop /\ StagedIsThere /\ AgentIsUp
=============================================================================
