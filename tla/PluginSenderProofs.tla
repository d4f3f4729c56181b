------------------------- MODULE PluginSenderProofs -------------------------
(***************************************************************************)
(* The sender thread: the supervisor's books are right for every set of    *)
(* settings, every respawn budget and however often the user and the       *)
(* transport interfere; and the teardown is orderly for every queue, any   *)
(* amount of audio and any number of reports.                              *)
(***************************************************************************)
EXTENDS PluginSender, SequenceTheorems, TLAPS

-----------------------------------------------------------------------------
(* The supervisor (PluginSupervisor).                                        *)

\* The types of what SupervisorTypeOK does not mention.
UserTyped ==
    /\ cfg \in Settings /\ trans \in Languages /\ request \in {"empty", "get", "abort"}
    /\ refused \in Nat /\ valid \in BOOLEAN

\* The session's settings: those sent to the worker are the ones the plugin
\* holds, and only the very first poll meets a session that was not sent any
\* and was not begun by a media swap without them.
SettingsKept ==
    /\ pc = "begin" => ~valid
    /\ client = "up" /\ worker.capable =>
         /\ worker.sent = "yes" => worker.told = tsnap
         /\ active /\ valid /\ (pc = "translate" => ~seen.first) => worker.sent # "no"

\* A transport that is lost, or reported dead, has not been paid for yet.
DeathUnpaid == dead \/ client = "dropped" => respawns < deaths + refused

\* The inductive invariant of the supervisor.
SupervisorInv ==
    /\ SupervisorTypeOK
    /\ UserTyped
    /\ SettingsKept
    /\ DownloadHasAWorker
    /\ BudgetAccounted
    /\ DeathUnpaid

-----------------------------------------------------------------------------
\* More deaths, or more requests refused, pay for the same respawns.
LEMMA BudgetGrows ==
    \A r, d, f, e, g \in Nat : d <= e /\ f <= g =>
        /\ r <= d + f => r <= e + g
        /\ r < d + f => r < e + g
        /\ r <= d + f /\ (d + 1 = e \/ f + 1 = g) => r < e + g
  OBVIOUS

\* The invariant has what the property asks for.
LEMMA InvMeansBooks == SupervisorInv => BooksAgree
<1> SUFFICES ASSUME SupervisorInv PROVE SettingsReachSession
  BY DEF SupervisorInv, BooksAgree
<1>1. worker.sent \in {"yes", "no", "skipped"}
  BY DEF SupervisorInv, SupervisorTypeOK, Workers
<1>2. QED
  BY <1>1 DEF SupervisorInv, SettingsKept, SettingsReachSession

\* The plugin opens with its books right.
LEMMA SupervisorInit == Init => SupervisorInv
<1> SUFFICES ASSUME Init PROVE SupervisorInv
  OBVIOUS
<1> USE SupervisorAssumption
<1>1. cfg \in Settings /\ "off" \in Languages /\ 0 \in Nat
  BY DEF Init
<1>2. PICK engine \in BOOLEAN, capable \in BOOLEAN : worker = Fresh(engine, capable)
  BY DEF Init
<1>3. worker \in Workers /\ seen \in Seen
  BY <1>1, <1>2 DEF Init, Fresh, Workers, Seen
<1>4. SupervisorTypeOK
  <2>1. respawns \in 0 .. MaxRespawns /\ deaths \in 0 .. MaxDeaths
    BY DEF Init
  <2>2. client \in {"none", "up", "dropped"}
    BY DEF Init
  <2>3. QED
    BY <1>1, <1>3, <2>1, <2>2 DEF Init, SupervisorTypeOK
<1>5. UserTyped /\ SettingsKept
  <2>1. worker.sent = "no"
    BY <1>2 DEF Fresh
  <2>2. QED
    BY <1>1, <2>1 DEF Init, UserTyped, SettingsKept
<1>6. DownloadHasAWorker /\ BudgetAccounted /\ DeathUnpaid
  BY DEF Init, DownloadHasAWorker, BudgetAccounted, DeathUnpaid
<1>7. QED
  BY <1>4, <1>5, <1>6 DEF SupervisorInv

-----------------------------------------------------------------------------
(* The client's calls.                                                      *)

\* A transport that breaks is a death to pay for, counted when it first shows.
LEMMA BreaksFacts ==
    ASSUME SupervisorInv, Breaks
    PROVE  /\ client # "none" /\ client' = "dropped" /\ deaths' \in 0 .. MaxDeaths
           /\ deaths' >= deaths /\ respawns < deaths' + refused
  BY SupervisorAssumption
  DEF Breaks, SupervisorInv, SupervisorTypeOK, UserTyped, BudgetAccounted, DeathUnpaid

\* What START leaves: a session on the worker w when it is accepted, none when
\* it is refused, and none on a transport that broke.
LEMMA StartsFacts ==
    ASSUME SupervisorInv, NEW w \in Workers, Starts(w)
    PROVE  /\ client # "none" /\ client' \in {"up", "dropped"} /\ active' \in BOOLEAN
           /\ worker' \in {worker, w} /\ worker' \in Workers
           /\ deaths' \in 0 .. MaxDeaths /\ deaths' >= deaths
           /\ client' = "up" => client = "up" /\ (active' => worker' = w)
           /\ client' = "dropped" => respawns < deaths' + refused
<1>1. worker \in Workers /\ deaths \in 0 .. MaxDeaths /\ MaxDeaths \in Nat
  BY SupervisorAssumption DEF SupervisorInv, SupervisorTypeOK
<1>2. CASE client = "up" /\ active' = TRUE /\ worker' = w /\ UNCHANGED <<client, deaths>>
  <2>1. deaths' \in 0 .. MaxDeaths /\ deaths' >= deaths
    BY <1>1, <1>2
  <2>2. QED
    BY <1>2, <2>1
<1>3. CASE client = "up" /\ active' = FALSE /\ UNCHANGED <<client, worker, deaths>>
  <2>1. deaths' \in 0 .. MaxDeaths /\ deaths' >= deaths
    BY <1>1, <1>3
  <2>2. QED
    BY <1>1, <1>3, <2>1
<1>4. CASE Breaks /\ active' = FALSE /\ UNCHANGED worker
  BY <1>1, <1>4, BreaksFacts
<1>5. QED
  BY <1>2, <1>3, <1>4 DEF Starts

\* What a session is told is a setting.
LEMMA ToldType ==
    ASSUME NEW w \in Workers, NEW settings \in Languages
    PROVE  Told(w, settings) \in Languages /\ (w.capable => Told(w, settings) = settings)
  BY DEF Told, Workers

\* vw_plugin_respawn_worker leaves the books right, whatever becomes of the
\* launch, when a recovery is paid for and the loop goes on past the poll.
LEMMA RespawnKeeps ==
    ASSUME SupervisorInv, NEW recovery \in 0 .. 1, NEW done, NEW failed,
           Respawn(recovery, done, failed),
           done \in {"poll", "transport"}, failed \in {"poll", "transport", "over"},
           pc # "begin", respawns + recovery <= MaxRespawns, respawns + recovery <= deaths + refused,
           snap' \in Settings, seen' \in Seen,
           UNCHANGED <<valid, tsnap, rsnap, user, refused>>
    PROVE  SupervisorInv'
<1> USE SupervisorAssumption
<1>1. /\ respawns' = respawns + recovery /\ dead' = FALSE /\ downloading' = Forgets
      /\ \/ /\ broken /\ client' = "none" /\ pc' = failed
            /\ UNCHANGED <<worker, active, deaths>>
         \/ \E engine, capable \in BOOLEAN :
              \/ /\ engine /\ client' = "up" /\ active' = TRUE /\ pc' = done
                 /\ worker' = Resettled(Fresh(engine, capable)) /\ UNCHANGED deaths
              \/ /\ client' = "up" /\ active' = FALSE /\ pc' = failed
                 /\ worker' = Fresh(engine, capable) /\ UNCHANGED deaths
              \/ /\ deaths < MaxDeaths /\ deaths' = deaths + 1
                 /\ client' = "dropped" /\ worker' = Fresh(engine, capable)
                 /\ \/ active' = FALSE /\ pc' = failed
                    \/ engine /\ active' = TRUE /\ pc' = done
  BY DEF Respawn
<1>2. /\ worker \in Workers /\ deaths \in Nat /\ deaths <= MaxDeaths /\ refused \in Nat
      /\ respawns \in Nat /\ respawns <= MaxRespawns /\ MaxRespawns \in Nat /\ MaxDeaths \in Nat
      /\ active \in BOOLEAN /\ tsnap \in Languages /\ cfg \in Settings
      /\ seen \in Seen /\ rsnap \in {"empty", "get", "abort"}
      /\ respawns <= deaths + refused
  BY DEF SupervisorInv, SupervisorTypeOK, UserTyped, BudgetAccounted
<1>3. respawns' \in 0 .. MaxRespawns /\ respawns' <= deaths + refused
  BY <1>1, <1>2
<1>4. downloading' = FALSE
  BY DEF Respawn, Forgets, SupervisorInv, SupervisorTypeOK, DownloadHasAWorker
<1>5. ASSUME NEW engine \in BOOLEAN, NEW capable \in BOOLEAN
      PROVE  /\ Fresh(engine, capable) \in Workers
             /\ Fresh(engine, capable).sent = "no"
             /\ Resettled(Fresh(engine, capable)) \in Workers
             /\ Resettled(Fresh(engine, capable)).sent = "yes"
             /\ Resettled(Fresh(engine, capable)).capable =>
                    Resettled(Fresh(engine, capable)).told = tsnap
  <2>1. PICK f : f = Fresh(engine, capable)
    OBVIOUS
  <2>2. f \in Workers /\ f.sent = "no"
    BY <1>2, <2>1 DEF Fresh, Workers
  <2>3. Told(f, tsnap) \in Languages /\ (f.capable => Told(f, tsnap) = tsnap)
    BY <1>2, <2>2, ToldType
  <2>4. Resettled(f) = [f EXCEPT !.told = Told(f, tsnap), !.sent = "yes"]
    BY DEF Resettled
  <2>5. /\ Resettled(f) \in Workers /\ Resettled(f).sent = "yes"
        /\ Resettled(f).capable => Resettled(f).told = tsnap
    BY <2>2, <2>3, <2>4 DEF Workers
  <2>6. QED
    BY <2>1, <2>2, <2>5
<1> DEFINE Outcome ==
      /\ client' \in {"none", "up", "dropped"} /\ worker' \in Workers /\ active' \in BOOLEAN
      /\ deaths' \in 0 .. MaxDeaths /\ deaths' >= deaths
      /\ client' = "dropped" => deaths' = deaths + 1
      /\ pc' \in {"poll", "transport", "over"}
      /\ client' = "up" /\ worker'.capable => /\ worker'.sent = "yes" => worker'.told = tsnap
                                              /\ active' => worker'.sent # "no"
<1>6. Outcome
  <2>1. CASE broken /\ client' = "none" /\ pc' = failed /\ UNCHANGED <<worker, active, deaths>>
    BY <1>2, <2>1
  <2>2. ASSUME NEW engine \in BOOLEAN, NEW capable \in BOOLEAN,
               \/ /\ engine /\ client' = "up" /\ active' = TRUE /\ pc' = done
                  /\ worker' = Resettled(Fresh(engine, capable)) /\ UNCHANGED deaths
               \/ /\ client' = "up" /\ active' = FALSE /\ pc' = failed
                  /\ worker' = Fresh(engine, capable) /\ UNCHANGED deaths
               \/ /\ deaths < MaxDeaths /\ deaths' = deaths + 1
                  /\ client' = "dropped" /\ worker' = Fresh(engine, capable)
                  /\ \/ active' = FALSE /\ pc' = failed
                     \/ engine /\ active' = TRUE /\ pc' = done
        PROVE  Outcome
    <3>1. CASE engine /\ client' = "up" /\ active' = TRUE /\ pc' = done
               /\ worker' = Resettled(Fresh(engine, capable)) /\ UNCHANGED deaths
      <4>1. /\ worker' \in Workers /\ worker'.sent = "yes"
            /\ worker'.capable => worker'.told = tsnap
        BY <1>5, <3>1
      <4>2. deaths' \in 0 .. MaxDeaths /\ deaths' >= deaths
        BY <1>2, <3>1
      <4>3. QED
        BY <3>1, <4>1, <4>2
    <3>2. CASE client' = "up" /\ active' = FALSE /\ pc' = failed
               /\ worker' = Fresh(engine, capable) /\ UNCHANGED deaths
      <4>1. worker' \in Workers /\ worker'.sent = "no"
        BY <1>5, <3>2
      <4>2. deaths' \in 0 .. MaxDeaths /\ deaths' >= deaths
        BY <1>2, <3>2
      <4>3. QED
        BY <3>2, <4>1, <4>2
    <3>3. CASE deaths < MaxDeaths /\ deaths' = deaths + 1
               /\ client' = "dropped" /\ worker' = Fresh(engine, capable)
               /\ ((active' = FALSE /\ pc' = failed) \/ (engine /\ active' = TRUE /\ pc' = done))
      <4>1. worker' \in Workers
        BY <1>5, <3>3
      <4>2. deaths' \in 0 .. MaxDeaths /\ deaths' >= deaths
        BY <1>2, <3>3
      <4>3. active' \in BOOLEAN /\ pc' \in {"poll", "transport", "over"}
        BY <3>3
      <4>4. QED
        BY <3>3, <4>1, <4>2, <4>3
    <3> HIDE DEF Outcome
    <3>4. QED
      BY <2>2, <3>1, <3>2, <3>3, Zenon
  <2> HIDE DEF Outcome
  <2>3. QED
    BY <1>1, <2>1, <2>2, Zenon
<1>7. SupervisorTypeOK'
  BY <1>1, <1>2, <1>3, <1>4, <1>6 DEF SupervisorTypeOK
<1>8. UserTyped'
  BY DEF SupervisorInv, UserTyped, user
<1>9. SettingsKept' /\ DownloadHasAWorker'
  BY <1>4, <1>6 DEF SettingsKept, DownloadHasAWorker
<1>10. BudgetAccounted' /\ DeathUnpaid'
  <2>1. /\ respawns' \in Nat /\ deaths' \in Nat /\ refused' \in Nat /\ deaths \in Nat /\ refused \in Nat
        /\ deaths <= deaths' /\ refused <= refused' /\ respawns' <= deaths + refused
        /\ client' = "dropped" => deaths + 1 = deaths'
    BY <1>1, <1>2, <1>3, <1>6
  <2>2. respawns' <= deaths' + refused'
    BY <2>1, BudgetGrows
  <2>3. client' = "dropped" => respawns' < deaths' + refused'
    BY <2>1, BudgetGrows
  <2>4. dead' = FALSE
    BY <1>1
  <2>5. QED
    BY <2>2, <2>3, <2>4, Zenon DEF BudgetAccounted, DeathUnpaid
<1>11. QED
  BY <1>7, <1>8, <1>9, <1>10 DEF SupervisorInv

-----------------------------------------------------------------------------
(* The sender loop.                                                         *)

\* A step that leaves the session, its settings and its worker alone keeps the
\* books when what it does to the transport and to the counters is paid for.
LEMMA LinkSteps ==
    ASSUME SupervisorInv,
           UNCHANGED <<worker, active, respawns, valid, tsnap>>,
           SupervisorTypeOK', UserTyped',
           client' = client \/ client' = "dropped", client' = "none" => ~downloading',
           deaths <= deaths', refused <= refused',
           dead' \/ client' = "dropped" =>
               respawns < deaths' + refused' \/ (UNCHANGED <<deaths, refused>> /\ (dead
                 \/ client = "dropped")),
           \/ UNCHANGED <<pc, seen>>
           \/ pc \notin {"begin", "translate"} /\ pc' \notin {"begin", "translate"}
    PROVE  SupervisorInv'
<1>1. /\ respawns \in Nat /\ deaths \in Nat /\ refused \in Nat /\ deaths' \in Nat /\ refused' \in Nat
      /\ respawns <= deaths + refused /\ respawns' = respawns
  BY SupervisorAssumption
  DEF SupervisorInv, SupervisorTypeOK, UserTyped, BudgetAccounted
<1>2. respawns <= deaths' + refused'
  BY <1>1, BudgetGrows
<1>3. BudgetAccounted'
  BY <1>1, <1>2, Zenon DEF BudgetAccounted
<1>4. dead' \/ client' = "dropped" => respawns < deaths' + refused'
  BY Zenon DEF SupervisorInv, DeathUnpaid
<1>5. DeathUnpaid'
  BY <1>1, <1>4, Zenon DEF DeathUnpaid
<1>6. SettingsKept'
  BY DEF SupervisorInv, SettingsKept
<1>7. DownloadHasAWorker'
  BY DEF DownloadHasAWorker
<1>8. QED
  BY <1>3, <1>5, <1>6, <1>7 DEF SupervisorInv

\* A step with a START in it: the worker of the new session has what the plugin
\* holds, if it was sent it, and only the very first is not asked whether it was.
LEMMA StartSteps ==
    ASSUME SupervisorInv, NEW w \in Workers, Starts(w),
           client = "up" /\ w.capable /\ w.sent = "yes" => w.told = tsnap,
           pc = "begin" \/ (pc = "io" /\ w.sent # "no"),
           pc' \in {"poll", "receive"},
           UNCHANGED <<dead, respawns, downloading, seen, snaps, user, refused>>
    PROVE  SupervisorInv'
<1> USE DEF snaps, user
<1>1. /\ client # "none" /\ client' \in {"up", "dropped"} /\ active' \in BOOLEAN
      /\ worker' \in {worker, w} /\ worker' \in Workers
      /\ deaths' \in 0 .. MaxDeaths /\ deaths' >= deaths
      /\ client' = "up" => client = "up" /\ (active' => worker' = w)
      /\ client' = "dropped" => respawns < deaths' + refused
  BY StartsFacts
<1>2. SupervisorTypeOK' /\ UserTyped'
  BY <1>1 DEF SupervisorInv, SupervisorTypeOK, UserTyped
<1>3. DownloadHasAWorker'
  BY <1>1 DEF DownloadHasAWorker
<1>4. SettingsKept'
  BY <1>1 DEF SupervisorInv, SettingsKept
<1>5. BudgetAccounted' /\ DeathUnpaid'
  <2>1. /\ respawns \in Nat /\ deaths \in Nat /\ refused \in Nat /\ deaths' \in Nat
        /\ respawns <= deaths + refused /\ respawns' = respawns /\ refused' = refused
        /\ dead' = dead /\ deaths <= deaths' /\ refused <= refused
    BY <1>1, SupervisorAssumption
    DEF SupervisorInv, SupervisorTypeOK, UserTyped, BudgetAccounted
  <2>2. respawns <= deaths' + refused
    BY <2>1, BudgetGrows
  <2>3. respawns < deaths + refused => respawns < deaths' + refused
    BY <2>1, BudgetGrows
  <2>4. dead => respawns < deaths + refused
    BY Zenon DEF SupervisorInv, DeathUnpaid
  <2>5. BudgetAccounted'
    BY <2>1, <2>2, Zenon DEF BudgetAccounted
  <2>6. dead' \/ client' = "dropped" => respawns < deaths' + refused
    <3>1. client' = "dropped" => respawns < deaths' + refused
      BY <1>1, Zenon
    <3>2. dead' => dead
      OBVIOUS
    <3>3. QED
      BY <2>3, <2>4, <3>1, <3>2, Zenon
  <2>7. DeathUnpaid'
    BY <2>1, <2>6, Zenon DEF DeathUnpaid
  <2>8. QED
    BY <2>5, <2>7
<1>6. QED
  BY <1>2, <1>3, <1>4, <1>5 DEF SupervisorInv

\* The first session, new media, and the restart after a live discontinuity.
LEMMA SessionKeeps ==
    ASSUME SupervisorInv, FirstSession \/ MediaSwap \/ LiveRestart
    PROVE  SupervisorInv'
<1>1. worker \in Workers /\ worker.told \in Languages /\ tsnap \in Languages
  BY DEF SupervisorInv, SupervisorTypeOK, Workers
<1>2. CASE FirstSession /\ client # "none"
  <2>1. client = "up" /\ worker.capable /\ worker.sent = "yes" => worker.told = tsnap
    BY DEF SupervisorInv, SettingsKept
  <2>2. QED
    BY <1>1, <1>2, <2>1, StartSteps DEF FirstSession
<1>3. CASE FirstSession /\ client = "none"
  <2>1. pc = "begin" /\ pc' = "poll" /\ UNCHANGED <<client, worker, active, deaths, dead, respawns,
            downloading, seen, valid, snap, tsnap, rsnap, cfg, trans, request, refused>>
    BY <1>3 DEF FirstSession, Starts, Breaks, link, snaps, user
  <2>2. SupervisorTypeOK' /\ UserTyped'
    BY <2>1 DEF SupervisorInv, SupervisorTypeOK, UserTyped
  <2>3. SettingsKept' /\ DownloadHasAWorker'
    BY <1>3, <2>1 DEF SupervisorInv, SettingsKept, DownloadHasAWorker
  <2>4. BudgetAccounted' /\ DeathUnpaid'
    BY <2>1 DEF SupervisorInv, BudgetAccounted, DeathUnpaid
  <2>5. QED
    BY <2>2, <2>3, <2>4 DEF SupervisorInv
<1>4. CASE MediaSwap
  <2>1. PICK w : w = [worker EXCEPT !.sent = IF @ = "yes" THEN "yes" ELSE "skipped"]
    OBVIOUS
  <2>2. /\ w \in Workers /\ w.capable = worker.capable /\ w.told = worker.told
        /\ w.sent # "no" /\ (w.sent = "yes" => worker.sent = "yes")
    BY <1>1, <2>1 DEF Workers
  <2>3. client = "up" /\ w.capable /\ w.sent = "yes" => w.told = tsnap
    BY <2>2 DEF SupervisorInv, SettingsKept
  <2>4. QED
    BY <1>4, <2>1, <2>2, <2>3, StartSteps DEF MediaSwap
<1>5. CASE LiveRestart
  <2>1. PICK w : w = Resettled(worker)
    OBVIOUS
  <2>2. Told(worker, tsnap) \in Languages /\ (worker.capable => Told(worker, tsnap) = tsnap)
    BY <1>1, ToldType
  <2>3. w \in Workers /\ w.sent = "yes" /\ (w.capable => w.told = tsnap)
    BY <1>1, <2>1, <2>2 DEF Workers, Resettled
  <2>4. QED
    BY <1>5, <2>1, <2>3, StartSteps DEF LiveRestart
<1>6. QED
  BY <1>2, <1>3, <1>4, <1>5

\* Reading the config changes nothing of the session.
LEMMA PollKeeps == SupervisorInv /\ Poll => SupervisorInv'
<1> SUFFICES ASSUME SupervisorInv, Poll PROVE SupervisorInv'
  OBVIOUS
<1>1. /\ pc = "poll" /\ UNCHANGED <<client, worker, active, deaths, dead, respawns, downloading,
                                    tsnap, rsnap, cfg, trans, request, refused>>
      /\ \/ /\ seen' = [cfg |-> cfg, trans |-> trans, request |-> request, first |-> ~valid]
            /\ pc' = "translate" /\ valid' = TRUE /\ snap' = IF valid THEN snap ELSE cfg
         \/ valid /\ pc' = "transport" /\ UNCHANGED <<seen, valid, snap>>
  BY DEF Poll, link, user
<1>2. [cfg |-> cfg, trans |-> trans, request |-> request, first |-> ~valid] \in Seen
  <2>1. (~valid) \in BOOLEAN
    OBVIOUS
  <2>2. QED
    BY <2>1, Zenon DEF SupervisorInv, UserTyped, Seen
<1>3. SupervisorTypeOK' /\ UserTyped'
  BY ZenonT(60), <1>1, <1>2 DEF SupervisorInv, SupervisorTypeOK, UserTyped
<1>4. DownloadHasAWorker'
  BY <1>1 DEF SupervisorInv, DownloadHasAWorker
<1>5. SettingsKept'
  <2>1. CASE pc' = "transport" /\ UNCHANGED <<seen, valid>>
    BY <1>1, <2>1 DEF SupervisorInv, SettingsKept
  <2>2. CASE /\ seen' = [cfg |-> cfg, trans |-> trans, request |-> request, first |-> ~valid]
             /\ pc' = "translate"
    <3>1. seen'.first <=> ~valid
      BY <2>2, Zenon
    <3>2. QED
      BY <1>1, <2>2, <3>1 DEF SupervisorInv, SettingsKept
  <2>3. QED
    BY <1>1, <2>1, <2>2, Zenon
<1>6. BudgetAccounted' /\ DeathUnpaid'
  BY <1>1 DEF SupervisorInv, BudgetAccounted, DeathUnpaid
<1>7. QED
  BY <1>3, <1>4, <1>5, <1>6 DEF SupervisorInv

\* Sending the translation settings leaves a session that was told them, or
\* no transport; without a session they are kept for the next one.
LEMMA TranslateKeeps == SupervisorInv /\ Translate => SupervisorInv'
<1> SUFFICES ASSUME SupervisorInv, Translate PROVE SupervisorInv'
  OBVIOUS
<1>0. /\ worker \in Workers /\ seen \in Seen /\ seen.trans \in Languages /\ "off" \in Languages
      /\ respawns \in Nat /\ deaths \in Nat /\ refused \in Nat
      /\ respawns <= deaths + refused
  BY SupervisorAssumption
  DEF SupervisorInv, SupervisorTypeOK, UserTyped, BudgetAccounted, Seen
<1>1. /\ pc = "translate" /\ pc' = "request"
      /\ UNCHANGED <<respawns, downloading, seen, valid, snap, rsnap, cfg, request, refused>>
  BY DEF Translate
<1>2. CASE ~seen.first /\ seen.trans = tsnap /\ UNCHANGED <<client, worker, active, deaths, dead, trans,
             tsnap>>
  <2>1. SupervisorTypeOK' /\ UserTyped'
    BY <1>1, <1>2 DEF SupervisorInv, SupervisorTypeOK, UserTyped
  <2>2. SettingsKept' /\ DownloadHasAWorker'
    BY <1>1, <1>2 DEF SupervisorInv, SettingsKept, DownloadHasAWorker
  <2>3. BudgetAccounted' /\ DeathUnpaid'
    BY <1>1, <1>2 DEF SupervisorInv, BudgetAccounted, DeathUnpaid
  <2>4. QED
    BY <2>1, <2>2, <2>3 DEF SupervisorInv
<1>3. CASE /\ ~(client # "none" /\ active) /\ tsnap' = seen.trans
           /\ worker' = [worker EXCEPT !.sent = "no"]
           /\ UNCHANGED <<client, active, deaths, dead, trans>>
  <2>0. worker' \in Workers /\ worker'.sent = "no"
    BY <1>0, <1>3 DEF Workers
  <2>1. SupervisorTypeOK' /\ UserTyped'
    BY <1>0, <1>1, <1>3, <2>0 DEF SupervisorInv, SupervisorTypeOK, UserTyped
  <2>2. SettingsKept' /\ DownloadHasAWorker'
    BY <1>1, <1>3, <2>0 DEF SupervisorInv, SettingsKept, DownloadHasAWorker
  <2>3. BudgetAccounted' /\ DeathUnpaid'
    BY <1>1, <1>3 DEF SupervisorInv, BudgetAccounted, DeathUnpaid
  <2>4. QED
    BY <2>1, <2>2, <2>3 DEF SupervisorInv
<1>4. CASE /\ client = "up"
           /\ worker' = [worker EXCEPT !.told = Told(worker, seen.trans), !.sent = "yes"]
           /\ tsnap' = seen.trans /\ UNCHANGED <<client, active, deaths, dead, trans>>
  <2>1. /\ worker' \in Workers /\ worker'.sent = "yes" /\ worker'.capable = worker.capable
        /\ worker'.told = Told(worker, seen.trans)
        /\ (worker.capable => Told(worker, seen.trans) = seen.trans)
    BY <1>0, <1>4, ToldType DEF Workers
  <2>2. SupervisorTypeOK' /\ UserTyped'
    BY <1>0, <1>1, <1>4, <2>1 DEF SupervisorInv, SupervisorTypeOK, UserTyped
  <2>3. SettingsKept' /\ DownloadHasAWorker'
    BY <1>1, <1>4, <2>1 DEF SupervisorInv, SettingsKept, DownloadHasAWorker
  <2>4. BudgetAccounted' /\ DeathUnpaid'
    BY <1>1, <1>4 DEF SupervisorInv, BudgetAccounted, DeathUnpaid
  <2>5. QED
    BY <2>2, <2>3, <2>4 DEF SupervisorInv
<1>5. CASE /\ worker.capable /\ Breaks /\ dead' = TRUE
           /\ trans' = "off" /\ tsnap' = (IF seen.first THEN "off" ELSE seen.trans)
           /\ UNCHANGED <<worker, active>>
  <2>1. /\ client # "none" /\ client' = "dropped" /\ deaths' \in 0 .. MaxDeaths
        /\ deaths' >= deaths /\ respawns < deaths' + refused
    BY <1>5, BreaksFacts
  <2>2. tsnap' \in Languages
    BY <1>0, <1>5
  <2>3. SupervisorTypeOK' /\ UserTyped'
    BY <1>0, <1>1, <1>5, <2>1, <2>2 DEF SupervisorInv, SupervisorTypeOK, UserTyped
  <2>4. SettingsKept' /\ DownloadHasAWorker'
    BY <1>1, <2>1 DEF SettingsKept, DownloadHasAWorker
  <2>5. BudgetAccounted' /\ DeathUnpaid'
    <3>1. deaths' \in Nat /\ respawns' = respawns /\ refused' = refused /\ deaths <= deaths'
            /\ refused <= refused
      BY <1>0, <1>1, <2>1, SupervisorAssumption
    <3>2. respawns <= deaths' + refused
      BY <1>0, <3>1, BudgetGrows
    <3>3. QED
      BY <2>1, <3>1, <3>2, Zenon DEF BudgetAccounted, DeathUnpaid
  <2>6. QED
    BY <2>3, <2>4, <2>5 DEF SupervisorInv
<1>6. CASE /\ ~worker.capable /\ trans' = "off"
           /\ tsnap' = (IF seen.first THEN "off" ELSE seen.trans)
           /\ UNCHANGED <<client, worker, active, deaths, dead>>
  <2>1. tsnap' \in Languages
    BY <1>0, <1>6
  <2>2. SupervisorTypeOK' /\ UserTyped'
    BY <1>0, <1>1, <1>6, <2>1 DEF SupervisorInv, SupervisorTypeOK, UserTyped
  <2>3. SettingsKept' /\ DownloadHasAWorker'
    BY <1>1, <1>6 DEF SupervisorInv, SettingsKept, DownloadHasAWorker
  <2>4. BudgetAccounted' /\ DeathUnpaid'
    BY <1>1, <1>6 DEF SupervisorInv, BudgetAccounted, DeathUnpaid
  <2>5. QED
    BY <2>2, <2>3, <2>4 DEF SupervisorInv
<1>7. QED
  <2>1. CASE ~seen.first /\ seen.trans = tsnap
    BY <1>2, <2>1 DEF Translate, link
  <2>2. CASE ~(~seen.first /\ seen.trans = tsnap) /\ client # "none" /\ active
    <3>1. SendTranslation
      BY <2>2 DEF Translate
    <3>2. QED
      BY <1>4, <1>5, <1>6, <3>1 DEF SendTranslation, link
  <2>3. CASE ~(~seen.first /\ seen.trans = tsnap) /\ ~(client # "none" /\ active)
    BY <1>3, <2>3 DEF Translate, link
  <2>4. QED
    BY <2>1, <2>2, <2>3

\* Relaying a model request: a download is only waited for from the worker the
\* request was sent to, and a request that meets no worker is counted.
LEMMA RequestKeeps == SupervisorInv /\ Request => SupervisorInv'
<1> SUFFICES ASSUME SupervisorInv, Request PROVE SupervisorInv'
  OBVIOUS
<1>0. /\ seen \in Seen /\ seen.request \in {"empty", "get", "abort"} /\ rsnap \in {"empty", "get",
           "abort"}
      /\ respawns \in Nat /\ deaths \in Nat /\ refused \in Nat /\ respawns <= deaths + refused
  BY SupervisorAssumption
  DEF SupervisorInv, SupervisorTypeOK, UserTyped, BudgetAccounted, Seen
<1>1. /\ pc = "request" /\ pc' = "settings"
      /\ UNCHANGED <<worker, active, respawns, seen, valid, snap, tsnap, cfg, trans>>
  BY DEF Request
<1>2. CASE /\ client = "up" /\ request' = "empty" /\ rsnap' = "empty"
           /\ downloading' = (seen.request = "get")
           /\ UNCHANGED <<client, deaths, dead, refused>>
  <2>1. downloading' \in BOOLEAN
    BY <1>2, Zenon
  <2>2. SupervisorTypeOK' /\ UserTyped'
    BY <1>1, <1>2, <2>1 DEF SupervisorInv, SupervisorTypeOK, UserTyped
  <2>3. QED
    BY <1>0, <1>1, <1>2, <2>2, LinkSteps
<1>3. CASE /\ Breaks /\ dead' = TRUE /\ client # "none" /\ refused' = refused
           /\ rsnap' = (IF seen.first THEN seen.request ELSE rsnap)
           /\ UNCHANGED <<request, downloading>>
  <2>1. /\ client # "none" /\ client' = "dropped" /\ deaths' \in 0 .. MaxDeaths
        /\ deaths' >= deaths /\ respawns < deaths' + refused
    BY <1>3, BreaksFacts
  <2>2. rsnap' \in {"empty", "get", "abort"}
    BY <1>0, <1>3
  <2>3. SupervisorTypeOK' /\ UserTyped'
    BY <1>1, <1>3, <2>1, <2>2 DEF SupervisorInv, SupervisorTypeOK, UserTyped
  <2>4. deaths <= deaths' /\ refused <= refused' /\ respawns < deaths' + refused'
    <3>1. deaths <= deaths' /\ refused <= refused'
      BY <1>0, <1>3, <2>1, SupervisorAssumption
    <3>2. respawns < deaths' + refused'
      BY <1>3, <2>1, Zenon
    <3>3. QED
      BY <3>1, <3>2
  <2>5. QED
    BY <1>1, <2>1, <2>3, <2>4, LinkSteps
<1>4. CASE /\ client = "none" /\ dead' = TRUE /\ refused' = refused + 1
           /\ rsnap' = (IF seen.first THEN seen.request ELSE rsnap)
           /\ UNCHANGED <<client, deaths, request, downloading>>
  <2>1. rsnap' \in {"empty", "get", "abort"} /\ refused' \in Nat
    BY <1>0, <1>4
  <2>2. SupervisorTypeOK' /\ UserTyped'
    BY <1>1, <1>4, <2>1 DEF SupervisorInv, SupervisorTypeOK, UserTyped
  <2>3. deaths <= deaths' /\ refused <= refused' /\ respawns < deaths' + refused'
    BY <1>0, <1>4
  <2>4. ~downloading'
    BY <1>4 DEF SupervisorInv, DownloadHasAWorker
  <2>5. QED
    BY <1>1, <1>4, <2>2, <2>3, <2>4, LinkSteps
<1>5. CASE /\ rsnap' = (IF seen.request = "empty" THEN "empty" ELSE rsnap)
           /\ UNCHANGED <<client, deaths, dead, downloading, request, refused>>
  <2>1. rsnap' \in {"empty", "get", "abort"}
    BY <1>0, <1>5
  <2>2. SupervisorTypeOK' /\ UserTyped'
    BY <1>1, <1>5, <2>1 DEF SupervisorInv, SupervisorTypeOK, UserTyped
  <2>3. client' = "none" => ~downloading'
    BY <1>5 DEF SupervisorInv, DownloadHasAWorker
  <2>4. QED
    BY <1>0, <1>1, <1>5, <2>2, <2>3, LinkSteps
<1>6. QED
  BY <1>2, <1>3, <1>4, <1>5 DEF Request, Breaks

\* Settings that need a new worker cost nothing of the budget.
LEMMA ApplySettingsKeeps == SupervisorInv /\ ApplySettings => SupervisorInv'
<1> SUFFICES ASSUME SupervisorInv, ApplySettings PROVE SupervisorInv'
  OBVIOUS
<1>0. /\ seen.cfg \in Settings /\ respawns \in Nat /\ respawns <= MaxRespawns
      /\ respawns + 0 <= MaxRespawns /\ respawns + 0 <= deaths + refused
  BY SupervisorAssumption
  DEF SupervisorInv, SupervisorTypeOK, UserTyped, BudgetAccounted, Seen
<1>1. /\ pc = "settings" /\ seen' = PollOver
      /\ UNCHANGED <<valid, tsnap, rsnap, user, refused>>
  BY DEF ApplySettings
<1>2. seen' \in Seen
  BY <1>1, SupervisorAssumption DEF PollOver, SupervisorInv, SupervisorTypeOK, Seen
<1>3. CASE Respawn(0, "transport", "transport") /\ snap' = seen.cfg
  BY <1>0, <1>1, <1>2, <1>3, RespawnKeeps
<1>4. CASE pc' = "transport" /\ UNCHANGED <<link, dead, respawns, downloading, snap>>
  <2>1. UNCHANGED <<client, worker, active, deaths, dead, respawns, downloading, snap>>
    BY <1>4 DEF link
  <2>2. SupervisorTypeOK' /\ UserTyped'
    BY <1>1, <1>2, <1>4, <2>1 DEF SupervisorInv, SupervisorTypeOK, UserTyped, user
  <2>3. SettingsKept' /\ DownloadHasAWorker'
    BY <1>1, <1>4, <2>1 DEF SupervisorInv, SettingsKept, DownloadHasAWorker
  <2>4. BudgetAccounted' /\ DeathUnpaid'
    BY <1>1, <2>1 DEF SupervisorInv, BudgetAccounted, DeathUnpaid
  <2>5. QED
    BY <2>2, <2>3, <2>4 DEF SupervisorInv
<1>5. QED
  BY <1>3, <1>4 DEF ApplySettings

\* Where the loop goes on without touching anything, the books stay right.
LEMMA PcSteps ==
    ASSUME SupervisorInv, pc \notin {"begin", "translate"},
           pc' \in {"poll", "io", "receive", "over"},
           UNCHANGED <<link, dead, respawns, seen, snaps, user, refused>>,
           downloading' \in BOOLEAN, downloading' => downloading
    PROVE  SupervisorInv'
<1>1. UNCHANGED <<client, worker, active, deaths, valid, snap, tsnap, rsnap, cfg, trans, request>>
  BY DEF link, snaps, user
<1>2. SupervisorTypeOK' /\ UserTyped'
  BY <1>1 DEF SupervisorInv, SupervisorTypeOK, UserTyped
<1>3. SettingsKept' /\ DownloadHasAWorker'
  BY <1>1 DEF SupervisorInv, SettingsKept, DownloadHasAWorker
<1>4. BudgetAccounted' /\ DeathUnpaid'
  BY <1>1 DEF SupervisorInv, BudgetAccounted, DeathUnpaid
<1>5. QED
  BY <1>2, <1>3, <1>4 DEF SupervisorInv

\* A recovery is paid for by the death it answers; a launch that is tried again
\* without a worker is free.
LEMMA RecoveryKeeps ==
    ASSUME SupervisorInv, Recover \/ IdleRetry \/ Proceed
    PROVE  SupervisorInv'
<1>0. /\ respawns \in Nat /\ deaths \in Nat /\ refused \in Nat /\ MaxRespawns \in Nat
      /\ respawns <= MaxRespawns /\ respawns <= deaths + refused
      /\ snap \in Settings /\ downloading \in BOOLEAN /\ seen \in Seen
  BY SupervisorAssumption
  DEF SupervisorInv, SupervisorTypeOK, UserTyped, BudgetAccounted
<1>1. CASE Recover
  <2>1. pc = "transport" /\ dead /\ UNCHANGED <<seen, snaps, user, refused>>
    BY <1>1 DEF Recover
  <2>2. respawns < deaths + refused
    BY <2>1 DEF SupervisorInv, DeathUnpaid
  <2>3. CASE respawns < MaxRespawns
    <3>1. Respawn(1, "poll", "over") /\ UNCHANGED <<valid, snap, tsnap, rsnap>>
      BY <1>1, <2>1, <2>3 DEF Recover, snaps
    <3>2. respawns + 1 <= MaxRespawns /\ respawns + 1 <= deaths + refused
      BY <1>0, <2>2, <2>3
    <3>3. QED
      BY <1>0, <2>1, <3>1, <3>2, RespawnKeeps
  <2>4. CASE ~(respawns < MaxRespawns)
    BY <1>0, <1>1, <2>1, <2>4, PcSteps DEF Recover
  <2>5. QED
    BY <2>3, <2>4
<1>2. CASE IdleRetry
  <2>1. /\ pc = "transport" /\ Respawn(0, "poll", "poll")
        /\ UNCHANGED <<seen, valid, snap, tsnap, rsnap, user, refused>>
    BY <1>2 DEF IdleRetry, snaps
  <2>2. respawns + 0 <= MaxRespawns /\ respawns + 0 <= deaths + refused
    BY <1>0
  <2>3. QED
    BY <1>0, <2>1, <2>2, RespawnKeeps
<1>3. CASE Proceed
  <2>1. /\ pc = "transport" /\ pc' \in {"poll", "io"}
        /\ UNCHANGED <<link, dead, respawns, downloading, seen, snaps, user, refused>>
    BY <1>3 DEF Proceed
  <2>2. QED
    BY <1>0, <2>1, PcSteps
<1>4. QED
  BY <1>1, <1>2, <1>3

\* Positions, pauses and audio: a write that fails is a death, reported or not.
LEMMA IoKeeps == SupervisorInv /\ Io => SupervisorInv'
<1> SUFFICES ASSUME SupervisorInv, Io PROVE SupervisorInv'
  OBVIOUS
<1>0. /\ deaths \in Nat /\ refused \in Nat /\ downloading \in BOOLEAN /\ dead \in BOOLEAN
  BY SupervisorAssumption DEF SupervisorInv, SupervisorTypeOK, UserTyped
<1>1. /\ pc = "io" /\ pc' \in {"receive", "poll"}
      /\ UNCHANGED <<worker, active, respawns, downloading, seen, snaps, user, refused>>
      /\ UNCHANGED <<valid, snap, tsnap, rsnap, cfg, trans, request>>
  BY DEF Io, snaps, user
<1>2. CASE UNCHANGED <<client, deaths, dead>>
  BY <1>0, <1>1, <1>2, PcSteps DEF link
<1>3. CASE Breaks /\ dead' \in BOOLEAN
  <2>1. /\ client # "none" /\ client' = "dropped" /\ deaths' \in 0 .. MaxDeaths
        /\ deaths' >= deaths /\ respawns < deaths' + refused
    BY <1>3, BreaksFacts
  <2>2. SupervisorTypeOK' /\ UserTyped'
    BY <1>1, <1>3, <2>1 DEF SupervisorInv, SupervisorTypeOK, UserTyped
  <2>3. deaths <= deaths' /\ refused <= refused'
    BY <1>0, <1>1, <2>1, SupervisorAssumption
  <2>4. respawns < deaths' + refused'
    BY <1>1, <2>1, Zenon
  <2>5. QED
    BY <1>1, <2>1, <2>2, <2>3, <2>4, LinkSteps
<1>4. dead' \in BOOLEAN
  BY <1>0 DEF Io
<1>5. QED
  BY <1>2, <1>3, <1>4 DEF Io

\* What the worker sends, and the end of its stream: a wait for a download ends
\* with the worker, and an error it does not recover from is a death.
LEMMA ReceiveKeeps == SupervisorInv /\ Receive => SupervisorInv'
<1> SUFFICES ASSUME SupervisorInv, Receive PROVE SupervisorInv'
  OBVIOUS
<1>0. /\ deaths \in Nat /\ refused \in Nat /\ respawns \in Nat /\ respawns <= deaths + refused
      /\ downloading \in BOOLEAN /\ MaxDeaths \in Nat
  BY SupervisorAssumption DEF SupervisorInv, SupervisorTypeOK, UserTyped, BudgetAccounted
<1>1. /\ pc = "receive" /\ pc' = "poll"
      /\ UNCHANGED <<worker, active, respawns, seen, snaps, user, refused>>
      /\ UNCHANGED <<valid, snap, tsnap, rsnap, cfg, trans, request>>
  BY DEF Receive, snaps, user
<1>2. CASE UNCHANGED <<client, deaths, dead, downloading>>
  BY <1>0, <1>1, <1>2, PcSteps DEF link
<1>3. CASE Breaks /\ dead' = TRUE /\ downloading' = FALSE
  <2>1. /\ client # "none" /\ client' = "dropped" /\ deaths' \in 0 .. MaxDeaths
        /\ deaths' >= deaths /\ respawns < deaths' + refused
    BY <1>3, BreaksFacts
  <2>2. SupervisorTypeOK' /\ UserTyped'
    BY <1>1, <1>3, <2>1 DEF SupervisorInv, SupervisorTypeOK, UserTyped
  <2>3. deaths <= deaths' /\ refused <= refused'
    BY <1>0, <1>1, <2>1, SupervisorAssumption
  <2>4. respawns < deaths' + refused'
    BY <1>1, <2>1, Zenon
  <2>5. QED
    BY <1>1, <2>1, <2>2, <2>3, <2>4, LinkSteps
<1>4. CASE Fatal /\ UNCHANGED <<client, downloading>>
  <2>1. /\ client = "up" /\ client' = "up" /\ deaths' = deaths + 1 /\ deaths' \in 0 .. MaxDeaths
        /\ dead' = TRUE /\ respawns < deaths' + refused
    BY <1>0, <1>4 DEF Fatal
  <2>2. SupervisorTypeOK' /\ UserTyped'
    BY <1>1, <1>4, <2>1 DEF SupervisorInv, SupervisorTypeOK, UserTyped
  <2>3. deaths <= deaths' /\ refused <= refused'
    BY <1>0, <1>1, <2>1
  <2>4. respawns < deaths' + refused'
    BY <1>1, <2>1, Zenon
  <2>5. QED
    BY <1>1, <2>1, <2>2, <2>3, <2>4, LinkSteps
<1>5. QED
  BY <1>2, <1>3, <1>4 DEF Receive

\* The end of a download, with a new worker when its model is taken over.
LEMMA ProgressKeeps == SupervisorInv /\ Progress => SupervisorInv'
<1> SUFFICES ASSUME SupervisorInv, Progress PROVE SupervisorInv'
  OBVIOUS
<1>0. /\ respawns + 0 <= MaxRespawns /\ respawns + 0 <= deaths + refused /\ snap \in Settings
      /\ seen \in Seen
  BY SupervisorAssumption
  DEF SupervisorInv, SupervisorTypeOK, UserTyped, BudgetAccounted
<1>1. /\ pc = "receive" /\ UNCHANGED <<seen, snaps, user, refused>>
      /\ UNCHANGED <<valid, snap, tsnap, rsnap>>
  BY DEF Progress, snaps
<1>2. CASE pc' = "poll" /\ downloading' = FALSE /\ UNCHANGED <<link, dead, respawns>>
  BY <1>1, <1>2, PcSteps
<1>3. CASE Activates
  <2>1. Respawn(0, "poll", "poll")
    BY <1>3 DEF Activates
  <2>2. QED
    BY <1>0, <1>1, <2>1, RespawnKeeps
<1>4. QED
  BY <1>2, <1>3 DEF Progress

\* What the user changes, and a world in which launches succeed again.
LEMMA WorldKeeps ==
    ASSUME SupervisorInv, Change \/ Repair \/ UNCHANGED vars
    PROVE  SupervisorInv'
<1>1. UNCHANGED <<client, worker, active, deaths, dead, respawns, downloading, pc, seen,
                  valid, snap, tsnap, rsnap, refused>>
  BY DEF Change, Repair, vars, link, snaps
<1>2. cfg' \in Settings /\ trans' \in Languages /\ request' \in {"empty", "get", "abort"}
  BY DEF Change, Repair, vars, user, SupervisorInv, UserTyped
<1>3. SupervisorTypeOK' /\ UserTyped'
  BY <1>1, <1>2 DEF SupervisorInv, SupervisorTypeOK, UserTyped
<1>4. SettingsKept' /\ DownloadHasAWorker'
  BY <1>1 DEF SupervisorInv, SettingsKept, DownloadHasAWorker
<1>5. BudgetAccounted' /\ DeathUnpaid'
  BY <1>1 DEF SupervisorInv, BudgetAccounted, DeathUnpaid
<1>6. QED
  BY <1>3, <1>4, <1>5 DEF SupervisorInv

-----------------------------------------------------------------------------
\* Every step keeps the books.
LEMMA SupervisorNext == SupervisorInv /\ [Next]_vars => SupervisorInv'
<1> SUFFICES ASSUME SupervisorInv, [Next]_vars PROVE SupervisorInv'
  OBVIOUS
<1>1. CASE FirstSession \/ MediaSwap \/ LiveRestart
  BY <1>1, SessionKeeps
<1>2. CASE Poll
  BY <1>2, PollKeeps
<1>3. CASE Translate
  BY <1>3, TranslateKeeps
<1>4. CASE Request
  BY <1>4, RequestKeeps
<1>5. CASE ApplySettings
  BY <1>5, ApplySettingsKeeps
<1>6. CASE Recover \/ IdleRetry \/ Proceed
  BY <1>6, RecoveryKeeps
<1>7. CASE Io
  BY <1>7, IoKeeps
<1>8. CASE Receive
  BY <1>8, ReceiveKeeps
<1>9. CASE Progress
  BY <1>9, ProgressKeeps
<1>10. CASE Change \/ Repair \/ UNCHANGED vars
  BY <1>10, WorldKeeps
<1>11. QED
  BY <1>1, <1>2, <1>3, <1>4, <1>5, <1>6, <1>7, <1>8, <1>9, <1>10 DEF Next, Sender, Over

\* The supervisor's invariant holds of every behaviour of the sender thread.
THEOREM SupervisorInvariant == Spec => []SupervisorInv
<1>1. Init => SupervisorInv
  BY SupervisorInit
<1>2. SupervisorInv /\ [Next]_vars => SupervisorInv'
  BY SupervisorNext
<1>3. QED
  BY <1>1, <1>2, PTL DEF Spec

\* vw_whisper_module.c's supervisor keeps its books for every budget, every set
\* of settings and any number of deaths and changes: a session runs with the
\* translation settings the plugin holds for it, a download is only waited for
\* from a worker there is, and no recovery is spent without a death or a
\* refused request to answer.
THEOREM SupervisorBooks == Spec => []BooksAgree
<1>1. SupervisorInv => BooksAgree
  BY InvMeansBooks
<1>2. QED
  BY <1>1, SupervisorInvariant, PTL

-----------------------------------------------------------------------------
(* The teardown (PluginClose).                                               *)

-----------------------------------------------------------------------------
(* Counting.                                                                *)

\* n of the members of s are x; t counts them up to each place.
One(b) == IF b THEN 1 ELSE 0
Tally(s, x, t) ==
    /\ t \in [0 .. Len(s) -> Int] /\ t[0] = 0
    /\ \A i \in 1 .. Len(s) : t[i] = t[i - 1] + One(s[i] = x)
Counts(s, x, n) == \E t : Tally(s, x, t) /\ t[Len(s)] = n

LEMMA CountsEmpty ==
    ASSUME NEW x, NEW n
    PROVE  Counts(<< >>, x, n) <=> n = 0
<1>1. Tally(<< >>, x, [i \in 0 .. 0 |-> 0])
  BY DEF Tally
<1>2. Counts(<< >>, x, n) => n = 0
  BY DEF Counts, Tally
<1>3. QED
  BY <1>1, <1>2 DEF Counts

LEMMA CountsMore ==
    ASSUME NEW S, NEW s \in Seq(S), NEW x, NEW n \in Int, Counts(s, x, n),
           NEW e \in S, NEW k \in Nat
    PROVE  Counts(s \o [i \in 1 .. k |-> e], x, n + (IF e = x THEN k ELSE 0))
<1> DEFINE b == [i \in 1 .. k |-> e]
           w == s \o b
<1>1. b \in Seq(S) /\ Len(b) = k
  OBVIOUS
<1>2. PICK t : Tally(s, x, t) /\ t[Len(s)] = n
  BY DEF Counts
<1>3. PICK m \in Nat : m = Len(s)
  BY LenProperties
<1>4. Len(w) = m + k /\ \A i \in 1 .. m + k : w[i] = IF i <= m THEN s[i] ELSE e
  <2>1. /\ Len(w) = Len(s) + Len(b)
        /\ \A i \in 1 .. Len(s) + Len(b) : w[i] = IF i <= Len(s) THEN s[i] ELSE b[i - Len(s)]
    BY <1>1, ConcatProperties
  <2>2. \A i \in 1 .. m + k : ~(i <= m) => i - m \in 1 .. k
    OBVIOUS
  <2>3. QED
    BY <1>1, <1>3, <2>1, <2>2
<1> HIDE DEF w
<1> DEFINE u == [i \in 0 .. m + k |-> IF i <= m THEN t[i] ELSE IF e = x THEN n + (i - m) ELSE n]
<1>5. u \in [0 .. m + k -> Int] /\ u[0] = 0
  BY <1>2, <1>3 DEF Tally
<1>6. ASSUME NEW i \in 1 .. m + k
      PROVE  u[i] = u[i - 1] + One(w[i] = x)
  <2>1. CASE i <= m
    <3>1. i \in 1 .. m /\ i - 1 \in 0 .. m + k /\ i - 1 <= m /\ w[i] = s[i]
      BY <1>4, <2>1
    <3>2. t[i] = t[i - 1] + One(s[i] = x)
      BY <1>2, <1>3, <3>1 DEF Tally
    <3>3. QED
      BY <2>1, <3>1, <3>2
  <2>2. CASE i > m
    <3>1. u[i] = (IF e = x THEN n + (i - m) ELSE n) /\ w[i] = e /\ i - 1 \in 0 .. m + k
      BY <1>4, <2>2
    <3>2. u[i - 1] = IF e = x THEN n + (i - 1 - m) ELSE n
      <4>1. CASE i - 1 = m
        BY <1>2, <1>3, <4>1
      <4>2. CASE i - 1 > m
        BY <4>2
      <4>3. QED
        BY <2>2, <4>1, <4>2
    <3>3. QED
      BY <3>1, <3>2 DEF One
  <2>3. QED
    BY <2>1, <2>2
<1>7. Tally(w, x, u)
  BY <1>4, <1>5, <1>6 DEF Tally
<1>8. u[Len(w)] = n + (IF e = x THEN k ELSE 0)
  <2>1. m + k \in 0 .. m + k
    OBVIOUS
  <2>2. CASE k = 0
    BY <1>2, <1>3, <1>4, <2>1, <2>2
  <2>3. CASE k > 0
    BY <1>4, <2>1, <2>3
  <2>4. QED
    BY <2>2, <2>3
<1>9. Counts(w, x, n + (IF e = x THEN k ELSE 0))
  <2> HIDE DEF u
  <2> QED
    BY <1>7, <1>8 DEF Counts
<1>10. QED
  BY <1>9 DEF w

LEMMA CountsAppend ==
    ASSUME NEW S, NEW s \in Seq(S), NEW x, NEW n \in Int, Counts(s, x, n), NEW e \in S
    PROVE  Counts(Append(s, e), x, n + One(e = x))
<1>1. PICK t : Tally(s, x, t) /\ t[Len(s)] = n
  BY DEF Counts
<1>2. PICK m \in Nat : m = Len(s)
  BY LenProperties
<1>3. Len(Append(s, e)) = m + 1 /\ \A i \in 1 .. m + 1 : Append(s, e)[i] = IF i <= m THEN s[i] ELSE e
  BY <1>2
<1> DEFINE u == [i \in 0 .. m + 1 |-> IF i <= m THEN t[i] ELSE n + One(e = x)]
<1>4. u \in [0 .. m + 1 -> Int] /\ u[0] = 0
  BY <1>1, <1>2 DEF Tally, One
<1>5. \A i \in 1 .. m + 1 : u[i] = u[i - 1] + One(Append(s, e)[i] = x)
  BY <1>1, <1>2, <1>3 DEF Tally
<1>6. u[m + 1] = n + One(e = x)
  OBVIOUS
<1>7. PICK w : w = Append(s, e)
  OBVIOUS
<1> HIDE DEF u
<1>8. Tally(w, x, u) /\ u[Len(w)] = n + One(e = x)
  BY <1>3, <1>4, <1>5, <1>6, <1>7 DEF Tally
<1>9. QED
  BY <1>7, <1>8 DEF Counts

LEMMA CountsTail ==
    ASSUME NEW S, NEW s \in Seq(S), NEW x, NEW n \in Int, Counts(s, x, n), s # << >>
    PROVE  Counts(Tail(s), x, n - One(Head(s) = x))
<1>1. PICK t : Tally(s, x, t) /\ t[Len(s)] = n
  BY DEF Counts
<1>2. PICK m \in Nat : Len(s) = m + 1
  <2>1. Len(s) \in Nat /\ Len(s) # 0
    BY LenProperties, EmptySeq
  <2>2. Len(s) - 1 \in Nat /\ Len(s) = (Len(s) - 1) + 1
    BY <2>1
  <2>3. QED
    BY <2>2
<1>3. /\ Len(Tail(s)) = m /\ Head(s) = s[1]
      /\ \A i \in 1 .. m : Tail(s)[i] = s[i + 1]
  <2>1. /\ Len(Tail(s)) = Len(s) - 1 /\ Head(s) = s[1]
        /\ \A i \in 1 .. Len(s) - 1 : Tail(s)[i] = s[i + 1]
    BY HeadTailProperties
  <2>2. QED
    BY <1>2, <2>1
<1>4. t[1] = One(Head(s) = x) /\ t[1] \in Int
  BY <1>1, <1>2, <1>3 DEF Tally, One
<1> DEFINE u == [i \in 0 .. m |-> t[i + 1] - t[1]]
<1>5. u \in [0 .. m -> Int] /\ u[0] = 0
  BY <1>1, <1>2, <1>4 DEF Tally
<1>6. ASSUME NEW i \in 1 .. m
      PROVE  u[i] = u[i - 1] + One(Tail(s)[i] = x)
  <2>1. i + 1 \in 1 .. Len(s) /\ (i + 1) - 1 = i /\ i \in 0 .. Len(s)
    BY <1>2
  <2>2. t[i + 1] = t[i] + One(s[i + 1] = x) /\ t[i] \in Int /\ One(s[i + 1] = x) \in Int
    BY <1>1, <2>1 DEF Tally, One
  <2>3. u[i] = t[i + 1] - t[1] /\ u[i - 1] = t[i] - t[1]
    OBVIOUS
  <2>4. QED
    BY <1>3, <1>4, <2>2, <2>3
<1>7. u[m] = n - One(Head(s) = x)
  BY <1>1, <1>2, <1>4
<1>8. QED
  BY <1>3, <1>5, <1>6, <1>7 DEF Counts, Tally

\* What is added to and taken from a count.
LEMMA CountsRow ==
    ASSUME NEW S, NEW s \in Seq(S), NEW x \in S, NEW n \in Int, Counts(s, x, n), NEW k \in Nat
    PROVE  Counts(s \o [i \in 1 .. k |-> x], x, n + k)
BY CountsMore, Zenon

LEMMA CountsOne ==
    ASSUME NEW S, NEW s \in Seq(S), NEW x, NEW n \in Int, Counts(s, x, n)
    PROVE  /\ x \in S => Counts(Append(s, x), x, n + 1)
           /\ \A e \in S : e # x => Counts(Append(s, e), x, n)
           /\ s # << >> /\ Head(s) = x => Counts(Tail(s), x, n - 1)
           /\ s # << >> /\ Head(s) # x => Counts(Tail(s), x, n)
<1>1. One(TRUE) = 1 /\ One(FALSE) = 0 /\ n + 0 = n /\ n - 0 = n
  BY DEF One
<1>2. ASSUME x \in S
      PROVE  Counts(Append(s, x), x, n + 1)
  <2>1. Counts(Append(s, x), x, n + One(x = x))
    BY <1>2, CountsAppend
  <2>2. One(x = x) = 1
    BY DEF One
  <2>3. QED
    BY <2>1, <2>2, Zenon
<1>3. ASSUME NEW e \in S, e # x
      PROVE  Counts(Append(s, e), x, n)
  <2>1. Counts(Append(s, e), x, n + One(e = x))
    BY CountsAppend
  <2>2. One(e = x) = 0
    BY <1>3 DEF One
  <2>3. QED
    BY <1>1, <2>1, <2>2, Zenon
<1>4. ASSUME s # << >>
      PROVE  Counts(Tail(s), x, n - One(Head(s) = x))
  BY <1>4, CountsTail
<1>5. Head(s) = x => One(Head(s) = x) = 1
  BY DEF One
<1>6. Head(s) # x => One(Head(s) = x) = 0
  BY DEF One
<1>7. QED
  BY <1>1, <1>2, <1>3, <1>4, <1>5, <1>6, Zenon

-----------------------------------------------------------------------------
(* The invariant.                                                           *)

ToFrames == {"audio", "stop", "shutdown"}
Answers == {"caption", "report", "eof"}

CloseTyped ==
    /\ phase \in {"running", "join", "clear", "stop", "drain", "shutdown", "disconnect", "closed"}
    /\ closeClient \in BOOLEAN /\ closeSource \in BOOLEAN /\ closeDead \in BOOLEAN
         /\ closeBroken \in BOOLEAN
    /\ fault \in BOOLEAN /\ late \in BOOLEAN /\ sentFlag \in BOOLEAN
    /\ captured \in Nat /\ closeQueue \in Nat /\ buffered \in Nat /\ closeShown \in Nat
         /\ shutdowns \in Nat
    /\ closeWorker \in {"up", "hung", "gone"}
    /\ toWorker \in Seq(ToFrames) /\ closeWire \in Seq(Answers)

\* How often the worker has been told to shut down, phase by phase.
CloseTold ==
    /\ phase \in {"running", "join", "clear", "stop"} => shutdowns = 0
    /\ phase = "drain" => sentFlag /\ shutdowns = 1
    /\ phase = "shutdown" => shutdowns = One(sentFlag)
    /\ phase \in {"disconnect", "closed"} /\ closeClient => shutdowns = 1
    /\ phase \in {"stop", "drain", "shutdown", "disconnect"} => closeClient

\* Every unit of audio is queued, on its way, with the worker, on its way
\* back as a caption, or shown.
Accounted ==
    \E a, c \in Int : /\ Counts(toWorker, "audio", a) /\ Counts(closeWire, "caption", c)
                      /\ closeQueue + a + buffered + c + closeShown = captured

\* x is not in s; x is in s, at its end only.
Without(s, x) == \A i \in 1 .. Len(s) : s[i] # x
EndsIn(s, x) == Len(s) > 0 /\ s[Len(s)] = x /\ \A i \in 1 .. Len(s) - 1 : s[i] # x

\* Where a worker that neither hangs nor dies is: up until it meets SHUTDOWN,
\* which is the last frame it is sent; then gone, and its last answer is the
\* end of the stream.
InOrder ==
    /\ phase \in {"running", "join", "clear", "stop"} =>
          closeWorker = "up" /\ ~closeBroken /\ ~closeDead /\ Without(toWorker, "shutdown")
            /\ Without(closeWire, "eof")
    /\ phase \notin {"running", "join"} => closeQueue = 0
    /\ phase = "drain" =>
          \/ closeWorker = "up" /\ ~closeBroken /\ Without(closeWire, "eof") /\ EndsIn(toWorker,
               "shutdown")
          \/ closeWorker = "gone" /\ toWorker = << >> /\ buffered = 0 /\ EndsIn(closeWire, "eof")
    /\ phase \in {"shutdown", "disconnect", "closed"} /\ ~late =>
          /\ closeWorker = "gone" /\ toWorker = << >> /\ buffered = 0 /\ closeWire = << >>
          /\ phase = "shutdown" => sentFlag

CloseInv ==
    /\ CloseTyped /\ CloseTold
    /\ closeSource => captured = 0 /\ closeQueue = 0
    /\ closeClient /\ ~fault => Accounted /\ InOrder

LEMMA CloseInitially ==
    ASSUME Close!CloseConstants, Close!Init
    PROVE  CloseInv
<1>1. CloseTyped /\ CloseTold /\ (closeSource => captured = 0 /\ closeQueue = 0)
  <2>1. << >> \in Seq(ToFrames) /\ << >> \in Seq(Answers) /\ 0 \in Nat
    OBVIOUS
  <2>2. CloseTyped
    BY <2>1 DEF Close!Init, CloseTyped
  <2>3. CloseTold
    BY DEF Close!Init, CloseTold
  <2>4. QED
    BY <2>2, <2>3 DEF Close!Init
<1>2. closeClient /\ ~fault => InOrder
  BY DEF Close!Init, InOrder, Without
<1>3. Accounted
  <2>1. Counts(toWorker, "audio", 0) /\ Counts(closeWire, "caption", 0)
    BY CountsEmpty DEF Close!Init
  <2>2. QED
    BY <2>1 DEF Accounted, Close!Init
<1>4. QED
  BY <1>1, <1>2, <1>3 DEF CloseInv

\* What the tail and the end of a sequence keep of what it is without.
LEMMA WithoutFacts ==
    ASSUME NEW S, NEW s \in Seq(S), NEW x
    PROVE  /\ \A e \in S : Without(s, x) /\ e # x => Without(Append(s, e), x)
           /\ Without(s, x) => EndsIn(Append(s, x), x)
           /\ Without(s, x) /\ s # << >> => Without(Tail(s), x) /\ Head(s) # x
           /\ EndsIn(s, x) => s # << >>
           /\ EndsIn(s, x) /\ Head(s) = x => Tail(s) = << >>
           /\ EndsIn(s, x) /\ Head(s) # x => EndsIn(Tail(s), x)
<1>1. PICK n \in Nat : n = Len(s)
  BY LenProperties
<1>3. Without(s, x) => EndsIn(Append(s, x), x)
  <2>1. /\ Len(Append(s, x)) = n + 1 /\ Append(s, x)[n + 1] = x
        /\ \A i \in 1 .. n : Append(s, x)[i] = s[i]
    BY <1>1, AppendProperties
  <2>2. QED
    BY <1>1, <2>1 DEF Without, EndsIn
<1>4. ASSUME NEW e \in S
      PROVE  Without(s, x) /\ e # x => Without(Append(s, e), x)
  <2>1. /\ Len(Append(s, e)) = n + 1 /\ Append(s, e)[n + 1] = e
        /\ \A i \in 1 .. n : Append(s, e)[i] = s[i]
    BY <1>1
  <2>2. QED
    BY <1>1, <2>1 DEF Without
<1>5. EndsIn(s, x) => s # << >>
  BY DEF EndsIn
<1>6. CASE s # << >>
  <2>1. /\ Len(Tail(s)) = n - 1 /\ Head(s) = s[1] /\ n > 0 /\ Tail(s) \in Seq(S)
        /\ \A i \in 1 .. n - 1 : Tail(s)[i] = s[i + 1]
    BY <1>1, <1>6, HeadTailProperties, EmptySeq
  <2>2. PICK w \in Seq(S) : w = Tail(s)
    BY <2>1
  <2>3. Without(s, x) => Without(w, x) /\ Head(s) # x
    BY <1>1, <2>1, <2>2 DEF Without
  <2>4. EndsIn(s, x) /\ Head(s) = x => w = << >>
    <3> SUFFICES ASSUME EndsIn(s, x), Head(s) = x PROVE w = << >>
      OBVIOUS
    <3>1. n = 1
      BY <1>1, <2>1 DEF EndsIn
    <3>2. Len(w) = 0
      BY <2>1, <2>2, <3>1
    <3>3. QED
      BY <3>2, EmptySeq
  <2>5. EndsIn(s, x) /\ Head(s) # x => EndsIn(w, x)
    <3> SUFFICES ASSUME EndsIn(s, x), Head(s) # x PROVE EndsIn(w, x)
      OBVIOUS
    <3>1. n > 1
      BY <1>1, <2>1 DEF EndsIn
    <3>2. Len(w) = n - 1 /\ w[n - 1] = s[n] /\ \A i \in 1 .. n - 2 : w[i] = s[i + 1]
      BY <2>1, <2>2, <3>1
    <3>3. QED
      BY <1>1, <3>1, <3>2 DEF EndsIn
  <2>6. QED
    BY <1>3, <1>4, <1>5, <2>2, <2>3, <2>4, <2>5
<1>7. QED
  BY <1>3, <1>4, <1>5, <1>6

LEMMA WithoutRow ==
    ASSUME NEW S, NEW s \in Seq(S), NEW x, NEW e \in S, NEW k \in Nat, Without(s, x), e # x
    PROVE  /\ s \o [i \in 1 .. k |-> e] \in Seq(S) /\ Without(s \o [i \in 1 .. k |-> e], x)
<1> DEFINE b == [i \in 1 .. k |-> e]
<1>1. b \in Seq(S) /\ Len(b) = k /\ \A i \in 1 .. k : b[i] = e
  OBVIOUS
<1> HIDE DEF b
<1>2. PICK n \in Nat : n = Len(s)
  BY LenProperties
<1>3. PICK w : w = s \o b
  OBVIOUS
<1>4. /\ w \in Seq(S) /\ Len(w) = n + k
      /\ \A i \in 1 .. n + k : w[i] = IF i <= n THEN s[i] ELSE b[i - n]
  BY ZenonT(60), <1>1, <1>2, <1>3, ConcatProperties
<1>5. ASSUME NEW i \in 1 .. n + k PROVE w[i] # x
  <2>1. CASE i <= n
    BY <1>2, <1>4, <2>1 DEF Without
  <2>2. CASE i > n
    <3>1. i - n \in 1 .. k
      BY <2>2
    <3>2. QED
      BY <1>1, <1>4, <2>2, <3>1
  <2>3. QED
    BY <2>1, <2>2
<1>6. QED
  BY <1>3, <1>4, <1>5 DEF Without, b

-----------------------------------------------------------------------------
(* Steps.                                                                   *)

\* The captions for all that is buffered.
Row == [i \in 1 .. buffered |-> "caption"]

LEMMA TakesIs ==
    ASSUME Close!WorkerTakes
    PROVE  /\ closeWorker = "up" /\ toWorker # << >> /\ toWorker' = Tail(toWorker)
           /\ UNCHANGED <<phase, closeClient, closeSource, fault, closeDead, captured, closeQueue,
                reports, late, closeShown, sentFlag, shutdowns>>
           /\ \/ Head(toWorker) = "audio" /\ buffered' = buffered + 1 /\ UNCHANGED <<closeWorker,
                   closeWire, closeBroken>>
              \/ /\ Head(toWorker) = "stop" /\ closeWire' = closeWire \o Row /\ buffered' = 0
                 /\ UNCHANGED <<closeWorker, closeBroken>>
              \/ /\ Head(toWorker) = "shutdown" /\ closeWire' = (closeWire \o Row) \o <<"eof">>
                      /\ buffered' = 0
                 /\ closeWorker' = "gone" /\ closeBroken' = TRUE
BY Zenon DEF Close!WorkerTakes, Row, Close!env

LEMMA CloseTypesKept ==
    ASSUME Close!CloseConstants, CloseInv, [Close!Next]_Close!vars
    PROVE  CloseTyped'
<1>0. CloseTyped
  BY DEF CloseInv
<1>1. CASE Close!Captures \/ Close!Close \/ Close!ClearPresenter \/ Close!GiveUp \/ Close!Disconnect
             \/ Close!Watchdog \/ Close!WorkerHangs
  <2>1. /\ phase' \in {"running", "join", "clear", "stop", "drain", "shutdown", "disconnect", "closed"}
        /\ captured' \in Nat /\ closeQueue' \in Nat /\ closeWorker' \in {"up", "hung", "gone"}
        /\ UNCHANGED <<buffered, closeShown, shutdowns, toWorker, closeWire>>
    BY <1>0, <1>1
       DEF Close!Captures, Close!Close, Close!ClearPresenter, Close!GiveUp, Close!Disconnect,
           Close!Watchdog, Close!WorkerHangs, CloseTyped, Close!env
  <2>2. UNCHANGED <<closeClient, closeSource, closeDead>>
    BY <1>1 DEF Close!Captures, Close!Close, Close!ClearPresenter, Close!GiveUp, Close!Disconnect,
       Close!Watchdog, Close!WorkerHangs, Close!env
  <2>3. closeBroken' \in BOOLEAN /\ late' \in BOOLEAN /\ sentFlag' \in BOOLEAN /\ fault' \in BOOLEAN
    BY <1>0, <1>1
       DEF Close!Captures, Close!Close, Close!ClearPresenter, Close!GiveUp, Close!Disconnect,
           Close!Watchdog, Close!WorkerHangs, CloseTyped, Close!env
  <2>4. QED
    BY <1>0, <2>1, <2>2, <2>3 DEF CloseTyped
<1>2. CASE Close!SenderSends
  <2>1. Append(toWorker, "audio") \in Seq(ToFrames)
    BY <1>0 DEF CloseTyped, ToFrames
  <2>2. closeQueue' \in Nat
    BY <1>0, <1>2 DEF Close!SenderSends, CloseTyped
  <2>3. QED
    BY <1>0, <1>2, <2>1, <2>2 DEF Close!SenderSends, CloseTyped, Close!env
<1>3. CASE Close!SenderReceives \/ Close!DrainFrame
  <2>1. closeWire' \in Seq(Answers)
    BY <1>0, <1>3, HeadTailProperties DEF Close!SenderReceives, Close!DrainFrame, CloseTyped
  <2>2. QED
    BY <1>0, <1>3, <2>1 DEF Close!SenderReceives, Close!DrainFrame, CloseTyped, Close!env
<1>4. CASE Close!Join
  <2>1. Close!Delivered \in Nat /\ closeQueue - Close!Delivered \in Nat
    BY <1>0 DEF CloseTyped, Close!Delivered
  <2>2. [i \in 1 .. Close!Delivered |-> "audio"] \in Seq(ToFrames)
    BY <2>1 DEF ToFrames
  <2>3. toWorker' \in Seq(ToFrames)
    BY <1>0, <1>4, <2>2, ConcatProperties DEF Close!Join, CloseTyped
  <2>4. QED
    BY <1>0, <1>4, <2>1, <2>3 DEF Close!Join, CloseTyped, Close!env
<1>5. CASE Close!StopSession
  <2>1. Close!LastFrames \in Seq(ToFrames)
    BY DEF Close!LastFrames, ToFrames
  <2>2. toWorker' \in Seq(ToFrames)
    BY <1>0, <1>5, <2>1, ConcatProperties DEF Close!StopSession, CloseTyped
  <2>3. shutdowns' \in Nat
    BY <1>0, <1>5 DEF Close!StopSession, CloseTyped
  <2>4. QED
    BY <1>0, <1>5, <2>2, <2>3 DEF Close!StopSession, CloseTyped, Close!env
<1>6. CASE Close!Shutdown
  <2>1. Append(toWorker, "shutdown") \in Seq(ToFrames)
    BY <1>0 DEF CloseTyped, ToFrames
  <2>2. toWorker' \in Seq(ToFrames)
    BY <1>0, <1>6, <2>1 DEF Close!Shutdown, CloseTyped
  <2>3. shutdowns' \in Nat
    BY <1>0, <1>6 DEF Close!Shutdown, CloseTyped
  <2>4. QED
    BY <1>0, <1>6, <2>2, <2>3 DEF Close!Shutdown, CloseTyped, Close!env
<1>7. CASE Close!WorkerTakes
  <2>1. toWorker' \in Seq(ToFrames)
    BY <1>0, <1>7, HeadTailProperties DEF Close!WorkerTakes, CloseTyped
  <2>2. closeWire \o Row \in Seq(Answers)
    BY <1>0, WithoutRow DEF CloseTyped, Answers, Row
  <2>3. (closeWire \o Row) \o <<"eof">> \in Seq(Answers)
    BY <2>2 DEF Answers
  <2>4. /\ closeWire' \in Seq(Answers) /\ buffered' \in Nat
        /\ closeWorker' \in {"up", "hung", "gone"} /\ closeBroken' \in BOOLEAN
    <3>1. buffered + 1 \in Nat /\ 0 \in Nat /\ closeWire \in Seq(Answers) /\ closeBroken \in BOOLEAN
      BY <1>0 DEF CloseTyped
    <3> HIDE DEF Row
    <3>2. QED
      BY <1>7, <2>2, <2>3, <3>1, TakesIs, Zenon
  <2>5. QED
    BY <1>0, <1>7, <2>1, <2>4, TakesIs DEF CloseTyped
<1>8. CASE Close!WorkerReports \/ Close!WorkerCaptions \/ Close!WorkerDies
  <2>1. \A e \in Answers : Append(closeWire, e) \in Seq(Answers)
    BY <1>0 DEF CloseTyped
  <2>2. closeWire' \in Seq(Answers)
    BY <1>8, <2>1 DEF Close!WorkerReports, Close!WorkerCaptions, Close!WorkerDies, Answers
  <2>3. buffered' \in Nat
    BY <1>0, <1>8 DEF Close!WorkerReports, Close!WorkerCaptions, Close!WorkerDies, CloseTyped
  <2>4. QED
    BY <1>0, <1>8, <2>2, <2>3 DEF Close!WorkerReports, Close!WorkerCaptions, Close!WorkerDies,
       CloseTyped, Close!env
<1>9. CASE UNCHANGED Close!vars
  BY <1>0, <1>9 DEF Close!vars, Close!env, CloseTyped
<1>10. QED
  BY <1>1, <1>2, <1>3, <1>4, <1>5, <1>6, <1>7, <1>8, <1>9
     DEF Close!Next, Close!Closing, Close!Others, Close!DrainTimeout, Close!Done

LEMMA ToldKept ==
    ASSUME Close!CloseConstants, CloseInv, [Close!Next]_Close!vars
    PROVE  CloseTold' /\ (closeSource' => captured' = 0 /\ closeQueue' = 0)
<1>0. CloseTyped /\ CloseTold /\ (closeSource => captured = 0 /\ closeQueue = 0)
  BY DEF CloseInv
<1>1. CASE Close!Close \/ Close!ClearPresenter \/ Close!StopSession \/ Close!Shutdown
  <2>1. Close!Contains(Close!LastFrames, "shutdown")
    BY DEF Close!Contains, Close!LastFrames
  <2>2. QED
    BY <1>0, <1>1, <2>1
       DEF Close!Close, Close!ClearPresenter, Close!StopSession, Close!Shutdown, CloseTold, One,
           CloseTyped, Close!env
<1>2. CASE Close!GiveUp \/ Close!Disconnect \/ Close!DrainFrame \/ Close!Watchdog
  BY <1>0, <1>2 DEF Close!GiveUp, Close!Disconnect, Close!DrainFrame, Close!Watchdog, CloseTold, One,
     CloseTyped, Close!env
<1>3. CASE Close!Join
  <2>1. closeSource => closeQueue' = 0
    BY <1>0, <1>3 DEF Close!Join, Close!Delivered, CloseTyped
  <2>2. QED
    BY <1>0, <1>3, <2>1 DEF Close!Join, CloseTold, CloseTyped, Close!env
<1>4. CASE Close!Captures \/ Close!SenderSends \/ Close!SenderReceives
  BY <1>0, <1>4 DEF Close!Captures, Close!SenderSends, Close!SenderReceives, CloseTold, CloseTyped,
     Close!env
<1>5. CASE Close!WorkerTakes \/ Close!WorkerReports \/ Close!WorkerCaptions \/ Close!WorkerHangs
             \/ Close!WorkerDies \/ UNCHANGED Close!vars
  <2>1. UNCHANGED <<phase, closeClient, closeSource, captured, closeQueue, sentFlag, shutdowns>>
    BY <1>5 DEF Close!WorkerTakes, Close!WorkerReports, Close!WorkerCaptions, Close!WorkerHangs,
       Close!WorkerDies, Close!vars, Close!env
  <2>2. QED
    BY <1>0, <2>1 DEF CloseTold
<1>6. QED
  BY <1>1, <1>2, <1>3, <1>4, <1>5 DEF Close!Next, Close!Closing, Close!Others, Close!DrainTimeout,
     Close!Done

\* The ledger, by what an action moves.
LEMMA AccountedKept ==
    ASSUME Close!CloseConstants, CloseInv, [Close!Next]_Close!vars, closeClient, ~fault'
    PROVE  ~fault /\ Accounted'
<1>1. ~fault
  BY DEF CloseInv, CloseTyped, Close!Next, Close!Closing, Close!Others, Close!DrainTimeout, Close!Done,
     Close!vars, Close!env, Close!Captures, Close!SenderSends,
         Close!SenderReceives, Close!Close, Close!Join, Close!ClearPresenter, Close!StopSession,
           Close!DrainFrame, Close!GiveUp, Close!Shutdown,
         Close!Disconnect, Close!WorkerTakes, Close!WorkerReports, Close!WorkerCaptions,
           Close!WorkerHangs, Close!WorkerDies, Close!Watchdog
<1>2. CloseTyped /\ Accounted /\ InOrder
  BY <1>1 DEF CloseInv
<1>3. PICK a \in Int, c \in Int :
        /\ Counts(toWorker, "audio", a) /\ Counts(closeWire, "caption", c)
        /\ closeQueue + a + buffered + c + closeShown = captured
  BY <1>2 DEF Accounted
<1>4. ASSUME NEW d \in Int, NEW e \in Int,
             Counts(toWorker', "audio", d), Counts(closeWire', "caption", e),
             closeQueue' + d + buffered' + e + closeShown' = captured'
      PROVE  Accounted'
  <2>1. Counts(toWorker, "audio", d)' /\ Counts(closeWire, "caption", e)'
    BY <1>4 DEF Counts, Tally, One
  <2>2. QED
    BY <1>4, <2>1 DEF Accounted
<1>5. closeQueue \in Nat /\ buffered \in Nat /\ closeShown \in Nat /\ captured \in Nat
      /\ toWorker \in Seq(ToFrames) /\ closeWire \in Seq(Answers)
  BY <1>2 DEF CloseTyped
<1>6. CASE UNCHANGED <<toWorker, closeWire, closeQueue, buffered, closeShown, captured>>
  <2>1. Counts(toWorker', "audio", a) /\ Counts(closeWire', "caption", c)
    BY <1>3, <1>6
  <2>2. closeQueue' + a + buffered' + c + closeShown' = captured'
    BY <1>3, <1>6
  <2>3. QED
    BY <1>1, <1>4, <2>1, <2>2, Zenon
<1>7. CASE Close!Captures
  <2>1. UNCHANGED <<toWorker, closeWire, buffered, closeShown>> /\ closeQueue' = closeQueue + 1
          /\ captured' = captured + 1
    BY <1>7 DEF Close!Captures
  <2>2. closeQueue' + a + buffered' + c + closeShown' = captured'
    BY <1>3, <1>5, <2>1
  <2>3. Counts(toWorker', "audio", a) /\ Counts(closeWire', "caption", c)
    BY <1>3, <2>1
  <2>4. QED
    BY <1>1, <1>4, <2>2, <2>3, Zenon
<1>8. CASE Close!SenderSends
  <2>1. ~closeBroken
    BY <1>2, <1>8 DEF InOrder, Close!SenderSends
  <2>2. /\ toWorker' = Append(toWorker, "audio") /\ closeQueue' = closeQueue - 1
        /\ UNCHANGED <<closeWire, buffered, closeShown, captured>>
    BY <1>8, <2>1 DEF Close!SenderSends
  <2>3. Counts(toWorker', "audio", a + 1) /\ a + 1 \in Int
    BY <1>3, <1>5, <2>2, CountsOne DEF ToFrames
  <2>4. closeQueue' + (a + 1) + buffered' + c + closeShown' = captured'
    BY <1>3, <1>5, <2>2
  <2>5. Counts(closeWire', "caption", c)
    BY <1>3, <2>2
  <2>6. QED
    BY <1>1, <1>4, <2>3, <2>4, <2>5, Zenon
<1>9. CASE Close!SenderReceives \/ Close!DrainFrame
  <2>1. /\ closeWire # << >> /\ closeWire' = Tail(closeWire) /\ UNCHANGED <<toWorker, closeQueue,
             buffered, captured>>
        /\ closeShown' = IF Head(closeWire) = "caption" THEN closeShown + 1 ELSE closeShown
    BY <1>9 DEF Close!SenderReceives, Close!DrainFrame
  <2>2. Counts(toWorker', "audio", a)
    BY <1>3, <2>1
  <2>3. CASE Head(closeWire) = "caption"
    <3>1. Counts(closeWire', "caption", c - 1) /\ c - 1 \in Int
      BY <1>3, <1>5, <2>1, <2>3, CountsOne
    <3>2. closeQueue' + a + buffered' + (c - 1) + closeShown' = captured'
      BY <1>3, <1>5, <2>1, <2>3
    <3>3. QED
      BY <1>1, <1>4, <2>2, <3>1, <3>2, Zenon
  <2>4. CASE Head(closeWire) # "caption"
    <3>1. Counts(closeWire', "caption", c)
      BY <1>3, <1>5, <2>1, <2>4, CountsOne
    <3>2. closeQueue' + a + buffered' + c + closeShown' = captured'
      BY <1>3, <1>5, <2>1, <2>4
    <3>3. QED
      BY <1>1, <1>4, <2>2, <3>1, <3>2, Zenon
  <2>5. QED
    BY <2>3, <2>4
<1>10. CASE Close!Join
  <2>1. PICK k \in Nat : k = Close!Delivered
    BY <1>5 DEF Close!Delivered
  <2>2. /\ toWorker' = toWorker \o [i \in 1 .. k |-> "audio"] /\ closeQueue' = closeQueue - k
        /\ UNCHANGED <<closeWire, buffered, closeShown, captured>>
    BY <1>10, <2>1 DEF Close!Join
  <2>3. Counts(toWorker', "audio", a + k) /\ a + k \in Int
    <3>1. "audio" \in ToFrames
      BY DEF ToFrames
    <3>2. Counts(toWorker \o [i \in 1 .. k |-> "audio"], "audio", a + k)
      BY <1>3, <1>5, <3>1, CountsRow, Zenon
    <3>3. QED
      BY <2>2, <3>2
  <2>4. closeQueue' + (a + k) + buffered' + c + closeShown' = captured'
    BY <1>3, <1>5, <2>2
  <2>5. Counts(closeWire', "caption", c)
    BY <1>3, <2>2
  <2>6. QED
    BY <1>1, <1>4, <2>3, <2>4, <2>5, Zenon
<1>11. CASE Close!StopSession
  <2>1. UNCHANGED <<closeWire, closeQueue, buffered, closeShown, captured>>
    BY <1>11 DEF Close!StopSession
  <2>2. toWorker' = toWorker \/ toWorker' = Append(Append(toWorker, "stop"), "shutdown")
    BY <1>5, <1>11 DEF Close!StopSession, Close!LastFrames
  <2>3. Counts(toWorker', "audio", a)
    <3>1. Append(toWorker, "stop") \in Seq(ToFrames) /\ Counts(Append(toWorker, "stop"), "audio", a)
      BY <1>3, <1>5, CountsOne DEF ToFrames
    <3>2. Counts(Append(Append(toWorker, "stop"), "shutdown"), "audio", a)
      BY <3>1, CountsOne DEF ToFrames
    <3>3. QED
      BY <1>3, <2>2, <3>2
  <2>4. Counts(closeWire', "caption", c) /\ closeQueue' + a + buffered' + c + closeShown' = captured'
    BY <1>3, <2>1
  <2>5. QED
    BY <1>1, <1>4, <2>3, <2>4, Zenon
<1>12. CASE Close!Shutdown
  <2>1. UNCHANGED <<closeWire, closeQueue, buffered, closeShown, captured>>
    BY <1>12 DEF Close!Shutdown
  <2>2. toWorker' = toWorker \/ toWorker' = Append(toWorker, "shutdown")
    BY <1>12 DEF Close!Shutdown
  <2>3. Counts(toWorker', "audio", a)
    BY ZenonT(60), <1>3, <1>5, <2>2, CountsOne DEF ToFrames
  <2>4. Counts(closeWire', "caption", c) /\ closeQueue' + a + buffered' + c + closeShown' = captured'
    BY <1>3, <2>1
  <2>5. QED
    BY <1>1, <1>4, <2>3, <2>4, Zenon
<1>13. CASE Close!WorkerReports \/ Close!WorkerCaptions
  <2>1. PICK k \in {0, 1} :
          /\ UNCHANGED <<toWorker, closeQueue, closeShown, captured>> /\ buffered' = buffered - k
          /\ closeWire' = Append(closeWire, IF k = 1 THEN "caption" ELSE "report")
    <3>1. CASE Close!WorkerReports
      BY <1>5, <3>1 DEF Close!WorkerReports
    <3>2. CASE Close!WorkerCaptions
      BY <1>5, <3>2 DEF Close!WorkerCaptions
    <3>3. QED
      BY <1>13, <3>1, <3>2
  <2>2. Counts(closeWire', "caption", c + k) /\ c + k \in Int
    <3>1. CASE k = 1
      <4>1. closeWire' = Append(closeWire, "caption") /\ "caption" \in Answers
        BY <2>1, <3>1 DEF Answers
      <4>2. QED
        BY <1>3, <1>5, <3>1, <4>1, CountsOne
    <3>2. CASE k = 0
      <4>1. closeWire' = Append(closeWire, "report") /\ "report" \in Answers /\ "report" # "caption"
        BY <2>1, <3>2 DEF Answers
      <4>2. QED
        BY <1>3, <1>5, <3>2, <4>1, CountsOne
    <3>3. QED
      BY <3>1, <3>2
  <2>3. closeQueue' + a + buffered' + (c + k) + closeShown' = captured'
    BY <1>3, <1>5, <2>1
  <2>4. Counts(toWorker', "audio", a)
    BY <1>3, <2>1
  <2>5. QED
    BY <1>1, <1>4, <2>2, <2>3, <2>4, Zenon
<1>14. CASE Close!WorkerTakes
  <2>1. /\ toWorker # << >> /\ toWorker' = Tail(toWorker) /\ UNCHANGED <<closeQueue, closeShown,
             captured>>
    BY <1>14, TakesIs
  <2>2. CASE Head(toWorker) = "audio"
    <3>1. buffered' = buffered + 1 /\ closeWire' = closeWire
      BY <1>14, <2>2, TakesIs
    <3>2. Counts(toWorker', "audio", a - 1) /\ a - 1 \in Int
      BY <1>3, <1>5, <2>1, <2>2, CountsOne
    <3>3. closeQueue' + (a - 1) + buffered' + c + closeShown' = captured'
      BY <1>3, <1>5, <2>1, <3>1
    <3>4. Counts(closeWire', "caption", c)
      BY <1>3, <3>1
    <3>5. QED
      BY <1>1, <1>4, <3>2, <3>3, <3>4, Zenon
  <2>3. CASE Head(toWorker) # "audio"
    <3>1. buffered' = 0 /\ (closeWire' = closeWire \o Row
            \/ closeWire' = (closeWire \o Row) \o <<"eof">>)
      BY <1>14, <2>3, TakesIs
    <3>2. Counts(toWorker', "audio", a)
      BY <1>3, <1>5, <2>1, <2>3, CountsOne
    <3>3. closeWire \o Row \in Seq(Answers) /\ Counts(closeWire \o Row, "caption", c + buffered)
      <4>1. Counts(closeWire \o [i \in 1 .. buffered |-> "caption"], "caption", c + buffered)
        <5>1. "caption" \in Answers
          BY DEF Answers
        <5>2. QED
          BY <1>3, <1>5, <5>1, CountsRow, Zenon
      <4>2. Row \in Seq(Answers)
        BY <1>5 DEF Row, Answers
      <4>3. closeWire \o Row \in Seq(Answers)
        BY <1>5, <4>2, ConcatProperties
      <4>4. QED
        BY <4>1, <4>3 DEF Row
    <3>4. PICK w \in Seq(Answers) : w = closeWire \o Row
      BY <3>3
    <3>5. closeWire' = w \/ closeWire' = Append(w, "eof")
      BY <3>1, <3>4
    <3>6. Counts(closeWire', "caption", c + buffered) /\ c + buffered \in Int
      <4>1. PICK n \in Int : n = c + buffered
        BY <1>5
      <4>2. Counts(Append(w, "eof"), "caption", n)
        BY <3>3, <3>4, <4>1, CountsOne DEF Answers
      <4>3. QED
        BY <3>3, <3>4, <3>5, <4>1, <4>2
    <3>7. closeQueue' + a + buffered' + (c + buffered) + closeShown' = captured'
      BY <1>3, <1>5, <2>1, <3>1
    <3>8. QED
      BY <1>1, <1>4, <3>2, <3>6, <3>7, Zenon
  <2>4. QED
    BY <2>2, <2>3
<1>15. CASE \/ Close!Close \/ Close!ClearPresenter \/ Close!GiveUp \/ Close!Disconnect \/ Close!Watchdog
                 \/ UNCHANGED Close!vars
  BY <1>6, <1>15 DEF Close!Close, Close!ClearPresenter, Close!GiveUp, Close!Disconnect, Close!Watchdog,
     Close!vars, Close!env
<1>16. CASE Close!WorkerHangs \/ Close!WorkerDies
  BY <1>16 DEF Close!WorkerHangs, Close!WorkerDies
<1>17. QED
  BY <1>1, <1>7, <1>8, <1>9, <1>10, <1>11, <1>12, <1>13, <1>14, <1>15, <1>16
     DEF Close!Next, Close!Closing, Close!Others, Close!DrainTimeout, Close!Done

\* Where the worker is, phase by phase.
LEMMA InOrderKept ==
    ASSUME Close!CloseConstants, CloseInv, [Close!Next]_Close!vars, closeClient, ~fault, ~fault'
    PROVE  InOrder'
<1>0. CloseTyped /\ CloseTold /\ InOrder /\ (closeSource => closeQueue = 0)
  BY DEF CloseInv
<1>1. toWorker \in Seq(ToFrames) /\ closeWire \in Seq(Answers) /\ closeQueue \in Nat /\ buffered \in Nat
  BY <1>0 DEF CloseTyped
<1>2. CASE Close!Captures \/ Close!Close \/ Close!Watchdog
  <2>1. UNCHANGED <<closeDead, closeBroken, toWorker, closeWorker, buffered, closeWire>>
    BY <1>2 DEF Close!Captures, Close!Close, Close!Watchdog
  <2>2. \/ phase = "running" /\ phase' \in {"running", "join"}
        \/ phase = "drain" /\ phase' = "drain" /\ closeQueue' = closeQueue
    BY <1>2 DEF Close!Captures, Close!Close, Close!Watchdog
  <2>3. QED
    BY <1>0, <2>1, <2>2 DEF InOrder, Without, EndsIn
<1>3. CASE Close!SenderSends
  <2>1. ~closeBroken /\ phase \in {"running", "join"}
    BY <1>0, <1>3 DEF InOrder, Close!SenderSends
  <2>2. /\ toWorker' = Append(toWorker, "audio")
        /\ UNCHANGED <<phase, closeDead, closeBroken, closeWorker, closeWire>>
    BY <1>3, <2>1 DEF Close!SenderSends
  <2>3. Without(toWorker', "shutdown")
    BY <1>0, <1>1, <2>1, <2>2, WithoutFacts DEF InOrder, ToFrames
  <2>4. QED
    BY <1>0, <2>1, <2>2, <2>3 DEF InOrder, Without
<1>4. CASE Close!SenderReceives
  <2>1. /\ phase \in {"running", "join"} /\ closeWire # << >> /\ closeWire' = Tail(closeWire)
        /\ closeDead' = (Head(closeWire) = "eof") /\ UNCHANGED <<phase, closeBroken, closeWorker,
             toWorker>>
    BY <1>4 DEF Close!SenderReceives
  <2>2. Without(closeWire, "eof")
    BY <1>0, <2>1 DEF InOrder
  <2>3. Without(closeWire', "eof") /\ Head(closeWire) # "eof"
    BY <1>1, <2>1, <2>2, WithoutFacts
  <2>4. QED
    BY <1>0, <2>1, <2>3 DEF InOrder, Without
<1>5. CASE Close!Join
  <2>1. /\ phase = "join" /\ phase' = "clear" /\ closeQueue' = closeQueue - Close!Delivered
        /\ toWorker' = toWorker \o [i \in 1 .. Close!Delivered |-> "audio"]
        /\ UNCHANGED <<closeDead, closeBroken, closeWorker, closeWire>>
    BY <1>5 DEF Close!Join
  <2>2. ~closeBroken /\ Without(toWorker, "shutdown")
    BY <1>0, <2>1 DEF InOrder
  <2>3. Close!Delivered \in Nat /\ closeQueue - Close!Delivered = 0
    BY <1>0, <1>1, <2>2 DEF Close!Delivered, CloseTyped
  <2>4. Without(toWorker', "shutdown")
    <3>1. "audio" \in ToFrames /\ "audio" # "shutdown"
      BY DEF ToFrames
    <3>2. Without(toWorker \o [i \in 1 .. Close!Delivered |-> "audio"], "shutdown")
      BY <1>1, <2>2, <2>3, <3>1, WithoutRow
    <3>3. QED
      BY <2>1, <3>2, Zenon
  <2>5. QED
    BY <1>0, <2>1, <2>3, <2>4 DEF InOrder, Without
<1>6. CASE Close!ClearPresenter
  <2>1. ~closeDead /\ phase = "clear"
    BY <1>0, <1>6 DEF InOrder, Close!ClearPresenter
  <2>2. phase' = "stop" /\ UNCHANGED <<closeDead, closeBroken, closeQueue, toWorker, closeWorker,
          closeWire>>
    BY <1>6, <2>1 DEF Close!ClearPresenter
  <2>3. QED
    BY <1>0, <2>1, <2>2 DEF InOrder, Without
<1>7. CASE Close!StopSession
  <2>1. ~closeBroken /\ phase = "stop" /\ closeWorker = "up" /\ closeQueue = 0 /\ Without(toWorker,
          "shutdown") /\ Without(closeWire, "eof")
    BY <1>0, <1>7 DEF InOrder, Close!StopSession
  <2>2. toWorker \o Close!LastFrames = Append(Append(toWorker, "stop"), "shutdown")
    BY <1>1 DEF Close!LastFrames
  <2>3. /\ phase' = "drain" /\ toWorker' = Append(Append(toWorker, "stop"), "shutdown")
        /\ UNCHANGED <<closeBroken, closeQueue, closeWorker, closeWire>>
    BY <1>7, <2>1, <2>2 DEF Close!StopSession
  <2>4. Append(toWorker, "stop") \in Seq(ToFrames) /\ Without(Append(toWorker, "stop"), "shutdown")
    BY <1>1, <2>1, WithoutFacts DEF ToFrames
  <2>5. EndsIn(toWorker', "shutdown")
    BY <2>3, <2>4, WithoutFacts DEF ToFrames
  <2>6. QED
    BY <2>1, <2>3, <2>5 DEF InOrder, Without, EndsIn
<1>8. CASE Close!DrainFrame
  <2>1. /\ phase = "drain" /\ ~late /\ closeWire # << >> /\ closeWire' = Tail(closeWire)
        /\ phase' = (IF Head(closeWire) = "eof" THEN "shutdown" ELSE "drain")
        /\ UNCHANGED <<closeBroken, closeQueue, toWorker, closeWorker, buffered, late, sentFlag>>
    BY <1>8 DEF Close!DrainFrame
  <2>2. CASE closeWorker = "up" /\ ~closeBroken /\ Without(closeWire, "eof") /\ EndsIn(toWorker,
               "shutdown")
    <3>1. Without(closeWire', "eof") /\ Head(closeWire) # "eof"
      BY <1>1, <2>1, <2>2, WithoutFacts
    <3>2. QED
      BY <1>0, <2>1, <2>2, <3>1 DEF InOrder, Without, EndsIn
  <2>3. CASE closeWorker = "gone" /\ toWorker = << >> /\ buffered = 0 /\ EndsIn(closeWire, "eof")
    <3>1. CASE Head(closeWire) = "eof"
      <4>1. closeWire' = << >>
        BY <1>1, <2>1, <2>3, <3>1, WithoutFacts
      <4>2. QED
        BY <1>0, <2>1, <2>3, <3>1, <4>1 DEF InOrder, CloseTold
    <3>2. CASE Head(closeWire) # "eof"
      <4>1. EndsIn(closeWire', "eof")
        BY <1>1, <2>1, <2>3, <3>2, WithoutFacts
      <4>2. QED
        BY <1>0, <2>1, <2>3, <3>2, <4>1 DEF InOrder, EndsIn
    <3>3. QED
      BY <3>1, <3>2
  <2>4. QED
    BY <1>0, <2>1, <2>2, <2>3 DEF InOrder
<1>9. CASE Close!GiveUp
  BY <1>0, <1>9 DEF Close!GiveUp, InOrder
<1>10. CASE Close!Shutdown
  <2>1. phase = "shutdown" /\ phase' = "disconnect" /\ UNCHANGED <<closeQueue, closeWorker, buffered,
          closeWire, late>>
    BY <1>10 DEF Close!Shutdown
  <2>2. sentFlag => toWorker' = toWorker
    BY <1>10 DEF Close!Shutdown
  <2>3. QED
    BY <1>0, <2>1, <2>2 DEF InOrder
<1>11. CASE Close!Disconnect
  BY <1>0, <1>11 DEF Close!Disconnect, InOrder
<1>12. CASE Close!WorkerTakes
  <2>1. /\ closeWorker = "up" /\ toWorker # << >> /\ toWorker' = Tail(toWorker)
        /\ UNCHANGED <<phase, closeDead, closeQueue, late, sentFlag>>
    BY <1>12, TakesIs
  <2>2. closeWire \o Row \in Seq(Answers) /\ (Without(closeWire, "eof") => Without(closeWire \o Row,
          "eof"))
    <3>1. "caption" \in Answers /\ "caption" # "eof"
      BY DEF Answers
    <3>2. Row \in Seq(Answers)
      BY <1>1, <3>1 DEF Row
    <3>3. closeWire \o Row \in Seq(Answers)
      BY <1>1, <3>2, ConcatProperties
    <3>4. Without(closeWire, "eof") => Without(closeWire \o Row, "eof")
      BY <1>1, <3>1, WithoutRow, Zenon DEF Row
    <3>5. QED
      BY <3>3, <3>4
  <2>3. CASE phase \in {"running", "join", "clear", "stop"}
    <3>1. /\ ~closeBroken /\ ~closeDead /\ Without(toWorker, "shutdown") /\ Without(closeWire, "eof")
      BY <1>0, <2>3 DEF InOrder
    <3>2. Without(toWorker', "shutdown") /\ Head(toWorker) # "shutdown"
      BY <1>1, <2>1, <3>1, WithoutFacts
    <3>3. UNCHANGED <<closeWorker, closeBroken>> /\ closeWire' \in {closeWire, closeWire \o Row}
      BY <1>12, <3>2, TakesIs
    <3>4. Without(closeWire', "eof")
      BY <2>2, <3>1, <3>3
    <3>5. QED
      BY <1>0, <2>1, <2>3, <3>1, <3>2, <3>3, <3>4 DEF InOrder, Without
  <2>4. CASE phase = "drain"
    <3>1. ~closeBroken /\ Without(closeWire, "eof") /\ EndsIn(toWorker, "shutdown")
      BY <1>0, <2>1, <2>4 DEF InOrder
    <3>2. CASE Head(toWorker) = "shutdown"
      <4>1. toWorker' = << >>
        BY <1>1, <2>1, <3>1, <3>2, WithoutFacts
      <4>2. closeWire' = (closeWire \o Row) \o <<"eof">> /\ buffered' = 0 /\ closeWorker' = "gone"
        BY <1>12, <3>2, TakesIs
      <4>3. PICK w \in Seq(Answers) : w = closeWire \o Row
        BY <2>2
      <4>4. closeWire' = Append(w, "eof")
        BY <4>2, <4>3
      <4>5. EndsIn(Append(w, "eof"), "eof")
        BY <2>2, <3>1, <4>3, WithoutFacts DEF Answers
      <4>6. EndsIn(closeWire', "eof")
        BY <4>4, <4>5
      <4>7. QED
        BY <1>0, <2>1, <2>4, <4>1, <4>2, <4>6 DEF InOrder, EndsIn
    <3>3. CASE Head(toWorker) # "shutdown"
      <4>1. EndsIn(toWorker', "shutdown")
        BY <1>1, <2>1, <3>1, <3>3, WithoutFacts
      <4>2. UNCHANGED <<closeWorker, closeBroken>> /\ closeWire' \in {closeWire, closeWire \o Row}
        BY <1>12, <3>3, TakesIs
      <4>3. Without(closeWire', "eof")
        BY <2>2, <3>1, <4>2
      <4>4. QED
        BY <1>0, <2>1, <2>4, <3>1, <4>1, <4>2, <4>3 DEF InOrder, Without, EndsIn
    <3>4. QED
      BY <3>2, <3>3
  <2>5. CASE phase \in {"shutdown", "disconnect", "closed"}
    BY <1>0, <2>1, <2>5 DEF InOrder
  <2>6. QED
    BY <1>0, <2>3, <2>4, <2>5 DEF CloseTyped
<1>13. CASE Close!WorkerReports \/ Close!WorkerCaptions
  <2>1. /\ closeWorker = "up" /\ UNCHANGED <<phase, closeDead, closeBroken, closeQueue, toWorker,
             closeWorker, late, sentFlag>>
        /\ closeWire' \in {Append(closeWire, "report"), Append(closeWire, "caption")}
    BY <1>13 DEF Close!WorkerReports, Close!WorkerCaptions
  <2>2. Without(closeWire, "eof") => Without(closeWire', "eof")
    BY <1>1, <2>1, WithoutFacts DEF Answers
  <2>3. QED
    BY <1>0, <2>1, <2>2 DEF InOrder, Without, EndsIn
<1>14. CASE Close!WorkerHangs \/ Close!WorkerDies
  BY <1>14 DEF Close!WorkerHangs, Close!WorkerDies
<1>15. CASE UNCHANGED Close!vars
  BY <1>0, <1>15 DEF Close!vars, Close!env, InOrder, Without, EndsIn
<1>16. QED
  BY <1>2, <1>3, <1>4, <1>5, <1>6, <1>7, <1>8, <1>9, <1>10, <1>11, <1>12, <1>13, <1>14, <1>15
     DEF Close!Next, Close!Closing, Close!Others, Close!DrainTimeout, Close!Done

LEMMA CloseStep ==
    ASSUME Close!CloseConstants, CloseInv, [Close!Next]_Close!vars
    PROVE  CloseInv'
<1>1. CloseTyped' /\ CloseTold' /\ (closeSource' => captured' = 0 /\ closeQueue' = 0)
  BY CloseTypesKept, ToldKept
<1>2. closeClient' = closeClient
  BY DEF Close!Next, Close!Closing, Close!Others, Close!DrainTimeout, Close!Done, Close!vars, Close!env,
     Close!Captures, Close!SenderSends,
         Close!SenderReceives, Close!Close, Close!Join, Close!ClearPresenter, Close!StopSession,
           Close!DrainFrame, Close!GiveUp, Close!Shutdown,
         Close!Disconnect, Close!WorkerTakes, Close!WorkerReports, Close!WorkerCaptions,
           Close!WorkerHangs, Close!WorkerDies, Close!Watchdog
<1>3. closeClient' /\ ~fault' => Accounted' /\ InOrder'
  BY <1>2, AccountedKept, InOrderKept
<1>4. QED
  BY <1>1, <1>3 DEF CloseInv

\* The inductive invariant of the teardown: the ledger of the audio, how
\* often SHUTDOWN was sent, and the order of the last frames.
THEOREM CloseInvariant ==
    ASSUME Close!CloseConstants
    PROVE  Close!Spec => []CloseInv
<1>1. Close!Init => CloseInv
  BY CloseInitially
<1>2. CloseInv /\ [Close!Next]_Close!vars => CloseInv'
  BY CloseStep
<1>3. QED
  BY <1>1, <1>2, PTL DEF Close!Spec

\* For every queue, any amount of audio and any number of reports: the
\* teardown tells a worker once to shut down, and all audio captured before
\* close has its caption shown when the worker ends its stream in time.
THEOREM CloseIsOrderly ==
    ASSUME Close!CloseConstants
    PROVE  Close!Spec => []Close!OrderlyClose
<1>1. CloseInv => Close!OrderlyClose
  <2> SUFFICES ASSUME CloseInv PROVE Close!OrderlyClose
    OBVIOUS
  <2>1. Close!ToldOnce
    BY DEF CloseInv, CloseTold, Close!ToldOnce
  <2>2. Close!TailShown
    <3> SUFFICES ASSUME phase = "closed", closeClient, ~fault, ~late PROVE closeShown = captured
      BY DEF Close!TailShown
    <3>1. Accounted /\ toWorker = << >> /\ closeWire = << >> /\ buffered = 0 /\ closeQueue = 0
      BY DEF CloseInv, InOrder
    <3>2. PICK a \in Int, c \in Int :
            /\ Counts(toWorker, "audio", a) /\ Counts(closeWire, "caption", c)
            /\ closeQueue + a + buffered + c + closeShown = captured
      BY <3>1 DEF Accounted
    <3>3. a = 0 /\ c = 0
      BY <3>1, <3>2, CountsEmpty
    <3>4. closeShown \in Nat /\ captured \in Nat
      BY DEF CloseInv, CloseTyped
    <3>5. QED
      BY <3>1, <3>2, <3>3, <3>4
  <2>3. QED
    BY <2>1, <2>2 DEF Close!OrderlyClose
<1>2. QED
  BY <1>1, CloseInvariant, PTL

\* The teardown of the composition runs as PluginClose says.
LEMMA CloseRuns == SenderSpec => Close!Spec
<1>1. SenderInit => Close!Init
  BY DEF SenderInit
<1>2. [SenderNext]_all => [Close!Next]_(Close!vars)
  <2>1. UNCHANGED closeVars => UNCHANGED Close!vars
    BY DEF closeVars, Close!vars, Close!env
  <2>2. QED
    BY <2>1 DEF SenderNext, Supervises, Closes, Seeks, all
<1>3. QED
  BY <1>1, <1>2, PTL DEF SenderSpec, Close!Spec

\* The same of the composition that the run checks: the teardown loses neither the last words nor
\* the SHUTDOWN.
THEOREM SenderOrderlyClose == SenderSpec => []OrderlyClose
<1>1. Close!Spec => []Close!OrderlyClose
  BY SenderAssumption, CloseIsOrderly
<1>2. QED
  BY <1>1, CloseRuns, PTL DEF OrderlyClose
=============================================================================
