------------------------------ MODULE Updater ------------------------------
(***************************************************************************)
(* The self-update.  Every instance of the client starts a thread that     *)
(* asks for the latest release and, without asking the user, downloads,    *)
(* verifies, unpacks and installs it and restarts the program.  Instances  *)
(* share one installed executable and nothing else.                        *)
(*                                                                         *)
(* Each step can fail, and the program can be closed between any two.  An  *)
(* archive or an executable is the version it was built from and whether   *)
(* it is whole.  What the network delivers is not trusted: the description *)
(* of a release may name one version and the archive of another, and an    *)
(* archive may arrive damaged.                                             *)
(***************************************************************************)
EXTENDS Naturals, Sequences

CONSTANTS Instances,   \* running copies of the program
          MaxVersion   \* bound: releases that are ever published

ASSUME UpdaterAssumption == MaxVersion \in Nat \ {0}

VARIABLES latest,         \* the newest release that was published
          exe,            \* the installed executable
          app,            \* instance -> its updater thread
          updates,        \* instance -> UpdateStates on their way to the GUI
          update_status,  \* instance -> GuiState::update_status
          lost            \* history: the end of an unpacked file was not written

vars == <<latest, exe, app, updates, update_status, lost>>

Versions == 1 .. MaxVersion
File == [version : Versions, whole : BOOLEAN]
UpdateState == {"CheckingForUpdate", "UpToDate", "Updating", "Error"}

\* version is the one the instance runs, release the one it installs, target the
\* release whose archive and signature the description names, file what the
\* thread has on disk: the archive, then the executable unpacked from it.
Thread == [pc : {"off", "check", "download", "verify", "decompress", "replace", "restart",
                 "ended"},
           version : Versions, release : Versions, target : Versions, file : File]

Whole(v) == [version |-> v, whole |-> TRUE]
Fresh(pc, v) == [pc |-> pc, version |-> v, release |-> v, target |-> v, file |-> Whole(v)]

TypeOK ==
    /\ latest \in Versions
    /\ exe \in File
    /\ app \in [Instances -> Thread]
    /\ updates \in [Instances -> Seq(UpdateState)]
    /\ update_status \in [Instances -> UpdateState]
    /\ lost \in BOOLEAN

Init ==
    /\ latest = 1
    /\ exe = Whole(1)
    /\ app = [i \in Instances |-> Fresh("off", 1)]
    /\ updates = [i \in Instances |-> <<>>]
    /\ update_status = [i \in Instances |-> "CheckingForUpdate"]
    /\ lost = FALSE

-----------------------------------------------------------------------------
At(i, pc) == app[i].pc = pc
Goto(i, pc) == app' = [app EXCEPT ![i].pc = pc]
SendStatus(i, status) == updates' = [updates EXCEPT ![i] = Append(@, status)]

\* Variant: the error is not shown.
Fails_Silent(i) == Goto(i, "ended") /\ UNCHANGED updates

\* A step returned an error: it is shown, and the thread ends.
Fails(i) == Goto(i, "ended") /\ SendStatus(i, "Error")

\* A process starts: its thread and its window are new.
Launch(i, v) ==
    /\ app' = [app EXCEPT ![i] = Fresh("check", v)]
    /\ updates' = [updates EXCEPT ![i] = <<>>]
    /\ update_status' = [update_status EXCEPT ![i] = "CheckingForUpdate"]

\* build_update signs the archives of a new release together with its version.
Publish ==
    /\ latest < MaxVersion
    /\ latest' = latest + 1
    /\ UNCHANGED <<exe, app, updates, update_status, lost>>

\* The user starts the installed program, if it is one.
Start(i) ==
    /\ At(i, "off") /\ exe.whole
    /\ Launch(i, exe.version)
    /\ UNCHANGED <<latest, exe, lost>>

\* The user closes it, or it crashes, wherever its thread is.
Quit(i) ==
    /\ ~At(i, "off")
    /\ app' = [app EXCEPT ![i] = Fresh("off", 1)]
    /\ updates' = [updates EXCEPT ![i] = <<>>]
    /\ UNCHANGED <<latest, exe, update_status, lost>>

\* Variant: the GUI is told of a new version that nobody can accept.
Check_Announces(i) ==
    /\ At(i, "check")
    /\ Goto(i, "download") /\ SendStatus(i, "NewVersionFound")
    /\ UNCHANGED <<latest, exe, update_status, lost>>

\* Updater::new: ask for the latest release, compare the versions, look for this
\* platform among its targets.
Check(i) ==
    /\ At(i, "check")
    /\ \/ Fails(i)
       \/ \E release, target \in 1 .. latest :
            IF app[i].version >= release
            THEN Goto(i, "ended") /\ SendStatus(i, "UpToDate")
            ELSE /\ app' = [app EXCEPT ![i].pc = "download", ![i].release = release,
                                       ![i].target = target]
                 /\ SendStatus(i, "Updating")
    /\ UNCHANGED <<latest, exe, update_status, lost>>

\* Updater::update downloads into a fresh temporary directory.
Download(i) ==
    /\ At(i, "download")
    /\ \/ Fails(i)
       \/ /\ \E archive \in [version : 1 .. latest, whole : BOOLEAN] :
               app' = [app EXCEPT ![i].pc = "verify", ![i].file = archive]
          /\ UNCHANGED updates
    /\ UNCHANGED <<latest, exe, update_status, lost>>

\* Variant: only the hash of the archive is signed.
get_bytes_for_signature_HashOnly(hash, version) == <<hash>>

\* What is signed: the hash of an archive, followed by a version.
get_bytes_for_signature(hash, version) == <<hash, version>>

\* The signature of the target was made by sign_file for its archive and version.
verify_signature(file, version, target) ==
    get_bytes_for_signature(file, version) = get_bytes_for_signature(Whole(target), target)

\* Variant: the result of the verification is not looked at.
Verify_Ignored(i) ==
    /\ At(i, "verify")
    /\ Goto(i, "decompress") /\ UNCHANGED updates
    /\ UNCHANGED <<latest, exe, update_status, lost>>

Verify(i) ==
    /\ At(i, "verify")
    /\ IF verify_signature(app[i].file, app[i].release, app[i].target)
       THEN Goto(i, "decompress") /\ UNCHANGED updates
       ELSE Fails(i)
    /\ UNCHANGED <<latest, exe, update_status, lost>>

\* decompress: a read or write error is reported, but the last buffer is written
\* when the BufWriter is dropped, and an error of that write is ignored.
Decompress(i) ==
    /\ At(i, "decompress")
    /\ \/ Fails(i) /\ UNCHANGED lost
       \/ Goto(i, "replace") /\ UNCHANGED <<updates, lost>>
       \/ /\ app' = [app EXCEPT ![i].pc = "replace", ![i].file.whole = FALSE]
          /\ lost' = TRUE
          /\ UNCHANGED updates
    /\ UNCHANGED <<latest, exe, update_status>>

\* self_replace puts the new file in the place of the executable, or fails.  It is
\* external and taken as all or nothing: no crash strikes inside it.
Replace(i) ==
    /\ At(i, "replace")
    /\ \/ Fails(i) /\ UNCHANGED exe
       \/ exe' = app[i].file /\ Goto(i, "restart") /\ UNCHANGED updates
    /\ UNCHANGED <<latest, update_status, lost>>

\* Updater::restart executes whatever is installed by then.
Restart(i) ==
    /\ At(i, "restart")
    /\ \/ exe.whole /\ Launch(i, exe.version)
       \/ Fails(i) /\ UNCHANGED update_status
    /\ UNCHANGED <<latest, exe, lost>>

\* Controller::update takes an UpdateState, set_updater_status stores it.
Show(i) ==
    /\ ~At(i, "off") /\ updates[i] # <<>>
    /\ update_status' = [update_status EXCEPT ![i] = Head(updates[i])]
    /\ updates' = [updates EXCEPT ![i] = Tail(@)]
    /\ UNCHANGED <<latest, exe, app, lost>>

Next ==
    \/ Publish
    \/ \E i \in Instances : \/ Start(i) \/ Quit(i) \/ Check(i) \/ Download(i) \/ Verify(i)
                            \/ Decompress(i) \/ Replace(i) \/ Restart(i) \/ Show(i)

Spec == Init /\ [][Next]_vars

\* The controller is polled whenever a status is ready; nothing is assumed of
\* the network, the disk or the user.
FairSpec == Spec /\ \A i \in Instances : WF_vars(Show(i))

-----------------------------------------------------------------------------
(* Properties.                                                             *)

\* Whatever failed or was cut short, and whoever else was updating, the
\* installed executable is whole, unless its last buffer was lost.
InstalledIsWhole == exe.whole \/ lost

\* "So no downgrade": an instance only ever installs a release that is newer
\* than itself, though the description it got may mix releases.  Another
\* instance may have installed a newer one meanwhile.
OnlyUpgrades ==
    [][\A i \in Instances :
         At(i, "replace") /\ app'[i].pc = "restart" => exe'.version > app[i].version]_vars

\* The window is not left at "Checking for update..." or "Updating...": once
\* the thread has ended its outcome is shown.
OutcomeShown ==
    \A i \in Instances :
        At(i, "ended") ~> (At(i, "off") \/ At(i, "check")
                              \/ update_status[i] \in {"UpToDate", "Error"})
=============================================================================
