---------------------------- MODULE UpdaterProofs ----------------------------
(***************************************************************************)
(* The safety of the self-update, for any number of instances and releases.*)
(***************************************************************************)
EXTENDS Updater, TLAPS

(***************************************************************************)
(* What a thread holds is as good as the step it has reached: from Check   *)
(* to Replace a newer release, from Verify on its own archive, whole until *)
(* Decompress loses the end of it.                                         *)
(***************************************************************************)
Carries(i) ==
    /\ app[i].pc \in {"download", "verify", "decompress", "replace"}
           => app[i].release > app[i].version
    /\ app[i].pc = "decompress" => app[i].file = Whole(app[i].release)
    /\ app[i].pc = "replace" =>
           app[i].file.version = app[i].release /\ (app[i].file.whole \/ lost)

IInv == TypeOK /\ InstalledIsWhole /\ \A i \in Instances : Carries(i)

\* A thread record whose fields have their types is a Thread, and back.
LEMMA FreshIsThread ==
    ASSUME NEW pc \in {"off", "check"}, NEW v \in Versions
    PROVE  Fresh(pc, v) \in Thread /\ Fresh(pc, v).pc = pc
BY DEF Fresh, Thread, Whole, File

\* The first program is the first release, whole, and no thread has started.
LEMMA InitIInv == Init => IInv
<1> SUFFICES ASSUME Init PROVE IInv
  OBVIOUS
<1>1. 1 \in Versions BY UpdaterAssumption DEF Versions
<1>2. app \in [Instances -> Thread] BY <1>1, FreshIsThread DEF Init
<1>3. exe \in File /\ exe.whole BY <1>1 DEF Init, File, Whole
<1>4. lost \in BOOLEAN BY DEF Init
<1>5. TypeOK BY <1>1, <1>2, <1>3, <1>4 DEF Init, TypeOK, UpdateState
<1>6. \A i \in Instances : app[i].pc = "off" BY <1>1, FreshIsThread DEF Init
<1>7. \A i \in Instances : Carries(i) BY <1>6 DEF Carries
<1> QED BY <1>3, <1>5, <1>7 DEF IInv, InstalledIsWhole

\* The steps that every thread takes when it fails, or moves on.
LEMMA GotoKeepsType ==
    ASSUME TypeOK, NEW i \in Instances,
           NEW pc \in {"download", "verify", "decompress", "replace", "restart", "ended"},
           Goto(i, pc)
    PROVE  /\ app' \in [Instances -> Thread]
           /\ app'[i].pc = pc
           /\ app'[i].version = app[i].version
           /\ app'[i].release = app[i].release
           /\ app'[i].file = app[i].file
           /\ \A j \in Instances \ {i} : app'[j] = app[j]
BY DEF TypeOK, Goto, Thread

\* A status that is sent keeps the types of the channels.
LEMMA SendKeepsType ==
    ASSUME TypeOK, NEW i \in Instances, NEW status \in UpdateState, SendStatus(i, status)
    PROVE  updates' \in [Instances -> Seq(UpdateState)]
BY DEF TypeOK, SendStatus

\* A program that is started begins with its look-up.
LEMMA LaunchKeepsType ==
    ASSUME TypeOK, NEW i \in Instances, NEW v \in Versions, Launch(i, v)
    PROVE  /\ app' \in [Instances -> Thread]
           /\ app'[i].pc = "check"
           /\ \A j \in Instances \ {i} : app'[j] = app[j]
           /\ updates' \in [Instances -> Seq(UpdateState)]
           /\ update_status' \in [Instances -> UpdateState]
BY FreshIsThread DEF TypeOK, Launch, UpdateState

\* A step of one thread leaves what the others carry alone: lost only grows.
LEMMA OthersCarry ==
    ASSUME IInv, NEW i \in Instances, lost => lost',
           \A j \in Instances \ {i} : app'[j] = app[j],
           Carries(i)'
    PROVE  \A j \in Instances : Carries(j)'
BY DEF IInv, Carries, TypeOK

\* A thread that fails installs nothing.
LEMMA FailsKeepsIInv ==
    ASSUME IInv, NEW i \in Instances, Fails(i),
           UNCHANGED <<latest, exe, update_status, lost>>
    PROVE  IInv'
<1>1. TypeOK' BY GotoKeepsType, SendKeepsType DEF IInv, TypeOK, Fails, UpdateState
<1>2. \A j \in Instances \ {i} : app'[j] = app[j]
  BY GotoKeepsType DEF IInv, Fails
<1>3. Carries(i)'
  <2>1. app'[i].pc = "ended" BY GotoKeepsType DEF IInv, Fails
  <2> QED BY <2>1 DEF Carries
<1>4. \A j \in Instances : Carries(j)' BY <1>2, <1>3, OthersCarry
<1> QED BY <1>1, <1>4 DEF IInv, InstalledIsWhole

\* Every step keeps the invariant.
LEMMA NextIInv == IInv /\ [Next]_vars => IInv'
<1> SUFFICES ASSUME IInv, [Next]_vars PROVE IInv'
  OBVIOUS
<1>1. CASE Publish
  BY <1>1, UpdaterAssumption
  DEF Publish, IInv, TypeOK, InstalledIsWhole, Carries, Versions
<1>2. ASSUME NEW i \in Instances, Start(i) PROVE IInv'
  <2>1. exe.version \in Versions BY DEF IInv, TypeOK, File
  <2>2. TypeOK' BY <1>2, <2>1, LaunchKeepsType DEF Start, IInv, TypeOK
  <2>3. Carries(i)' BY <1>2, <2>1, LaunchKeepsType DEF Start, IInv, Carries
  <2>4. \A j \in Instances : Carries(j)'
    BY <1>2, <2>1, <2>3, LaunchKeepsType, OthersCarry DEF Start, IInv
  <2> QED BY <1>2, <2>2, <2>4 DEF Start, IInv, InstalledIsWhole
<1>3. ASSUME NEW i \in Instances, Quit(i) PROVE IInv'
  <2>0. 1 \in Versions BY UpdaterAssumption DEF Versions
  <2>1. /\ app' \in [Instances -> Thread]
        /\ app'[i].pc = "off"
        /\ \A j \in Instances \ {i} : app'[j] = app[j]
    BY <1>3, <2>0, FreshIsThread DEF Quit, IInv, TypeOK
  <2>2. TypeOK' BY <1>3, <2>1 DEF Quit, IInv, TypeOK
  <2>3. Carries(i)' BY <2>1 DEF Carries
  <2>4. \A j \in Instances : Carries(j)' BY <1>3, <2>1, <2>3, OthersCarry DEF Quit
  <2> QED BY <1>3, <2>2, <2>4 DEF Quit, IInv, InstalledIsWhole
<1>4. ASSUME NEW i \in Instances, Check(i) PROVE IInv'
  <2>1. CASE Fails(i) BY <1>4, <2>1, FailsKeepsIInv DEF Check
  <2>2. ASSUME NEW release \in 1 .. latest, NEW target \in 1 .. latest,
               IF app[i].version >= release
               THEN Goto(i, "ended") /\ SendStatus(i, "UpToDate")
               ELSE /\ app' = [app EXCEPT ![i].pc = "download", ![i].release = release,
                                          ![i].target = target]
                    /\ SendStatus(i, "Updating")
        PROVE  IInv'
    <3>0. release \in Versions /\ target \in Versions /\ app[i] \in Thread
      BY UpdaterAssumption DEF IInv, TypeOK, Versions
    <3>1. CASE app[i].version >= release
      <4>1. TypeOK' BY <1>4, <2>2, <3>1, GotoKeepsType, SendKeepsType
                       DEF Check, IInv, TypeOK, UpdateState
      <4>0. app'[i].pc = "ended" BY <2>2, <3>1, GotoKeepsType DEF IInv
      <4>2. Carries(i)' BY <4>0 DEF Carries
      <4>3. \A j \in Instances : Carries(j)'
        BY <1>4, <2>2, <3>1, <4>2, GotoKeepsType, OthersCarry DEF Check, IInv
      <4> QED BY <1>4, <4>1, <4>3 DEF Check, IInv, InstalledIsWhole
    <3>2. CASE ~(app[i].version >= release)
      <4>1. /\ app' \in [Instances -> Thread]
            /\ \A j \in Instances \ {i} : app'[j] = app[j]
            /\ app'[i].pc = "download"
            /\ app'[i].release = release
            /\ app'[i].version = app[i].version
        <5>1. /\ app' = [app EXCEPT ![i] = [app[i] EXCEPT !.pc = "download",
                                                   !.release = release, !.target = target]]
              /\ app \in [Instances -> Thread]
          BY <2>2, <3>2 DEF IInv, TypeOK
        <5> QED BY <3>0, <5>1 DEF Thread
      <4>2. TypeOK' BY <1>4, <2>2, <3>2, <4>1, SendKeepsType
                       DEF Check, IInv, TypeOK, UpdateState
      <4>3. release > app[i].version BY <3>0, <3>2 DEF Thread, Versions
      <4>4. Carries(i)' BY <4>1, <4>3 DEF Carries
      <4>5. \A j \in Instances : Carries(j)' BY <1>4, <4>1, <4>4, OthersCarry DEF Check
      <4> QED BY <1>4, <4>2, <4>5 DEF Check, IInv, InstalledIsWhole
    <3> QED BY <3>1, <3>2
  <2> QED BY <1>4, <2>1, <2>2 DEF Check
<1>5. ASSUME NEW i \in Instances, Download(i) PROVE IInv'
  <2>1. CASE Fails(i) BY <1>5, <2>1, FailsKeepsIInv DEF Download
  <2>2. ASSUME NEW archive \in [version : 1 .. latest, whole : BOOLEAN],
               app' = [app EXCEPT ![i].pc = "verify", ![i].file = archive],
               UNCHANGED updates
        PROVE  IInv'
    <3>1. archive \in File BY UpdaterAssumption DEF IInv, TypeOK, File, Versions
    <3>2. /\ app' \in [Instances -> Thread]
          /\ \A j \in Instances \ {i} : app'[j] = app[j]
          /\ app'[i].pc = "verify"
          /\ app'[i].release = app[i].release
          /\ app'[i].version = app[i].version
      <4>1. /\ app' = [app EXCEPT ![i] = [app[i] EXCEPT !.pc = "verify", !.file = archive]]
            /\ app \in [Instances -> Thread]
        BY <2>2 DEF IInv, TypeOK
      <4>2. [app[i] EXCEPT !.pc = "verify", !.file = archive] \in Thread
        BY <3>1, <4>1 DEF Thread
      <4>3. /\ app' \in [Instances -> Thread]
            /\ \A j \in Instances \ {i} : app'[j] = app[j]
        BY <4>1, <4>2
      <4>4. app'[i] = [app[i] EXCEPT !.pc = "verify", !.file = archive] BY <4>1
      <4>5. app[i] \in Thread BY <4>1
      <4> QED BY <4>3, <4>4, <4>5 DEF Thread
    <3>3. Carries(i)' BY <1>5, <3>2 DEF IInv, Carries, Download, At
    <3>4. \A j \in Instances : Carries(j)' BY <1>5, <3>2, <3>3, OthersCarry DEF Download
    <3> QED BY <1>5, <2>2, <3>2, <3>4 DEF Download, IInv, TypeOK, InstalledIsWhole
  <2> QED BY <1>5, <2>1, <2>2 DEF Download
<1>6. ASSUME NEW i \in Instances, Verify(i) PROVE IInv'
  <2>1. CASE Fails(i) BY <1>6, <2>1, FailsKeepsIInv DEF Verify
  <2>2. CASE /\ verify_signature(app[i].file, app[i].release, app[i].target)
             /\ Goto(i, "decompress") /\ UNCHANGED updates
    <3>1. /\ app'[i].pc = "decompress"
          /\ app'[i].version = app[i].version
          /\ app'[i].release = app[i].release
          /\ app'[i].file = app[i].file
      BY <2>2, GotoKeepsType DEF IInv
    <3>2. Carries(i)'
      BY <1>6, <2>2, <3>1 
      DEF IInv, Carries, Verify, At, verify_signature, get_bytes_for_signature, Whole
    <3>3. \A j \in Instances : Carries(j)'
      BY <1>6, <2>2, <3>2, GotoKeepsType, OthersCarry DEF Verify, IInv
    <3> QED BY <1>6, <2>2, <3>3, GotoKeepsType DEF Verify, IInv, TypeOK, InstalledIsWhole
  <2> QED BY <1>6, <2>1, <2>2 DEF Verify
<1>7. ASSUME NEW i \in Instances, Decompress(i) PROVE IInv'
  <2>1. CASE Fails(i) /\ UNCHANGED lost BY <1>7, <2>1, FailsKeepsIInv DEF Decompress
  <2>2. CASE Goto(i, "replace") /\ UNCHANGED <<updates, lost>>
    <3>1. /\ app'[i].pc = "replace"
          /\ app'[i].version = app[i].version
          /\ app'[i].release = app[i].release
          /\ app'[i].file = app[i].file
      BY <2>2, GotoKeepsType DEF IInv
    <3>2. Carries(i)'
      <4>1. app[i].release > app[i].version /\ app[i].file = Whole(app[i].release)
        BY <1>7 DEF IInv, Carries, Decompress, At
      <4>2. app'[i].file.version = app[i].release /\ app'[i].file.whole
        BY <3>1, <4>1 DEF Whole
      <4> QED BY <3>1, <4>1, <4>2 DEF Carries
    <3>3. \A j \in Instances : Carries(j)'
      BY <2>2, <3>2, GotoKeepsType, OthersCarry DEF IInv
    <3> QED BY <1>7, <2>2, <3>3, GotoKeepsType DEF Decompress, IInv, TypeOK, InstalledIsWhole
  <2>3. CASE /\ app' = [app EXCEPT ![i].pc = "replace", ![i].file.whole = FALSE]
             /\ lost' = TRUE
             /\ UNCHANGED updates
    <3>1. /\ app' \in [Instances -> Thread]
          /\ \A j \in Instances \ {i} : app'[j] = app[j]
          /\ app'[i].pc = "replace"
          /\ app'[i].version = app[i].version
          /\ app'[i].release = app[i].release
          /\ app'[i].file.version = app[i].file.version
      <4> DEFINE t == [app[i] EXCEPT !.pc = "replace", !.file = [@ EXCEPT !.whole = FALSE]]
      <4>1. app \in [Instances -> Thread] /\ app[i] \in Thread
        BY DEF IInv, TypeOK
      <4>2. /\ t \in Thread /\ t.pc = "replace" /\ t.version = app[i].version
            /\ t.release = app[i].release /\ t.file.version = app[i].file.version
        BY <4>1 DEF Thread, File
      <4>3. app' = [app EXCEPT ![i] = t]
        BY <2>3, <4>1
      <4> HIDE DEF t
      <4>4. app' \in [Instances -> Thread] /\ app'[i] = t
            /\ \A j \in Instances \ {i} : app'[j] = app[j]
        BY <4>1, <4>2, <4>3, Zenon
      <4> QED BY <4>2, <4>4
    <3>2. Carries(i)'
      <4>1. app[i].release > app[i].version /\ app[i].file = Whole(app[i].release)
        BY <1>7 DEF IInv, Carries, Decompress, At
      <4>2. app'[i].file.version = app[i].release BY <3>1, <4>1 DEF Whole
      <4> QED BY <2>3, <3>1, <4>1, <4>2 DEF Carries
    <3>3. \A j \in Instances : Carries(j)' BY <2>3, <3>1, <3>2, OthersCarry
    <3> QED BY <1>7, <2>3, <3>1, <3>3 DEF Decompress, IInv, TypeOK, InstalledIsWhole
  <2> QED BY <1>7, <2>1, <2>2, <2>3 DEF Decompress
<1>8. ASSUME NEW i \in Instances, Replace(i) PROVE IInv'
  <2>1. CASE Fails(i) /\ UNCHANGED exe BY <1>8, <2>1, FailsKeepsIInv DEF Replace
  <2>2. CASE exe' = app[i].file /\ Goto(i, "restart") /\ UNCHANGED updates
    <3>1. app'[i].pc = "restart" BY <2>2, GotoKeepsType DEF IInv
    <3>2. Carries(i)' BY <3>1 DEF Carries
    <3>3. \A j \in Instances : Carries(j)'
      BY <1>8, <2>2, <3>2, GotoKeepsType, OthersCarry DEF Replace, IInv
    <3>4. exe' \in File BY <2>2 DEF IInv, TypeOK, Thread
    <3>5. InstalledIsWhole' BY <1>8, <2>2 DEF Replace, At, IInv, Carries, InstalledIsWhole
    <3> QED BY <1>8, <2>2, <3>3, <3>4, <3>5, GotoKeepsType DEF Replace, IInv, TypeOK
  <2> QED BY <1>8, <2>1, <2>2 DEF Replace
<1>9. ASSUME NEW i \in Instances, Restart(i) PROVE IInv'
  <2>1. CASE Fails(i) /\ UNCHANGED update_status BY <1>9, <2>1, FailsKeepsIInv DEF Restart
  <2>2. CASE exe.whole /\ Launch(i, exe.version)
    <3>1. exe.version \in Versions BY DEF IInv, TypeOK, File
    <3>2. TypeOK' BY <1>9, <2>2, <3>1, LaunchKeepsType DEF Restart, IInv, TypeOK
    <3>3. Carries(i)' BY <2>2, <3>1, LaunchKeepsType DEF IInv, Carries
    <3>4. \A j \in Instances : Carries(j)'
      BY <1>9, <2>2, <3>1, <3>3, LaunchKeepsType, OthersCarry DEF Restart, IInv
    <3> QED BY <1>9, <3>2, <3>4 DEF Restart, IInv, InstalledIsWhole
  <2> QED BY <1>9, <2>1, <2>2 DEF Restart
<1>10. ASSUME NEW i \in Instances, Show(i) PROVE IInv'
  <2>1. /\ Head(updates[i]) \in UpdateState
        /\ Tail(updates[i]) \in Seq(UpdateState)
    BY <1>10 DEF Show, IInv, TypeOK
  <2>2. TypeOK' BY <1>10, <2>1 DEF Show, IInv, TypeOK
  <2>3. \A j \in Instances : Carries(j)' BY <1>10 DEF Show, IInv, Carries
  <2> QED BY <1>10, <2>2, <2>3 DEF Show, IInv, InstalledIsWhole
<1>11. CASE UNCHANGED vars
  BY <1>11 DEF vars, IInv, TypeOK, InstalledIsWhole, Carries
<1> QED BY <1>1, <1>2, <1>3, <1>4, <1>5, <1>6, <1>7, <1>8, <1>9, <1>10, <1>11 DEF Next

\* All updater threads and files stay within their types (Updater::new, update).
THEOREM TypeCorrect == Spec => []TypeOK
<1>1. IInv => TypeOK BY DEF IInv
<1> QED BY InitIInv, NextIInv, <1>1, PTL DEF Spec

\* self_replace only ever installs a whole file, up to a lost last buffer.
THEOREM ExecutableWhole == Spec => []InstalledIsWhole
<1>1. IInv => InstalledIsWhole BY DEF IInv
<1> QED BY InitIInv, NextIInv, <1>1, PTL DEF Spec

\* verify_signature and the comparison in Updater::new keep older releases out,
\* however many instances update at the same time.
THEOREM NeverOlder == Spec => OnlyUpgrades
<1>1. ASSUME IInv, [Next]_vars, NEW i \in Instances, At(i, "replace"), app'[i].pc = "restart"
      PROVE  exe'.version > app[i].version
  <2>1. app[i].file.version > app[i].version BY <1>1 DEF IInv, Carries, At
  <2>2. exe' = app[i].file \/ app'[i].pc # "restart"
    <3>1. app[i].pc = "replace" /\ app[i] \in Thread BY <1>1 DEF At, IInv, TypeOK
    <3>2. CASE Publish \/ UNCHANGED vars
      BY <1>1, <3>1, <3>2 DEF Publish, vars
    <3>3. ASSUME NEW j \in Instances, j # i,
                 \/ Start(j) \/ Quit(j) \/ Check(j) \/ Download(j) \/ Verify(j)
                 \/ Decompress(j) \/ Replace(j) \/ Restart(j) \/ Show(j)
          PROVE  app'[i] = app[i]
      BY <1>1, <3>3 DEF IInv, TypeOK, Start, Quit, Check, Download, Verify, Decompress,
         Replace, Restart, Show, Launch, Fails, Goto
    <3>4. CASE Quit(i)
      <4>1. app'[i].pc = "off" BY <1>1, <3>4 DEF Quit, Fresh, IInv, TypeOK
      <4> QED BY <4>1
    <3>5. ASSUME \/ Start(i) \/ Check(i) \/ Download(i) \/ Verify(i)
                 \/ Decompress(i) \/ Restart(i)
          PROVE  FALSE
      BY <3>1, <3>5 DEF Start, Check, Download, Verify, Decompress, Restart, At
    <3>6. CASE Show(i) BY <1>1, <3>1, <3>6 DEF Show
    <3>7. CASE Replace(i)
      <4>1. Goto(i, "ended") => app'[i].pc = "ended" BY <1>1, GotoKeepsType DEF IInv
      <4> QED BY <3>7, <4>1 DEF Replace, Fails
    <3> QED BY <1>1, <3>1, <3>2, <3>3, <3>4, <3>5, <3>6, <3>7 DEF Next
  <2> QED BY <1>1, <2>1, <2>2
<1>2. IInv /\ [Next]_vars =>
        [\A i \in Instances : At(i, "replace") /\ app'[i].pc = "restart"
                                  => exe'.version > app[i].version]_vars
  BY <1>1
<1> QED BY InitIInv, NextIInv, <1>2, PTL DEF Spec, OnlyUpgrades
=============================================================================
