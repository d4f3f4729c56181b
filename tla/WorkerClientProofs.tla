------------------------- MODULE WorkerClientProofs -------------------------
(***************************************************************************)
(* The session protocol between the plugin and a worker, for any number of *)
(* sessions, workers, calls and repeated frames: the client confirms only  *)
(* what was accepted, takes no frame twice, and the worker ends up with    *)
(* the source mode, the settings and the pause the client keeps.           *)
(***************************************************************************)
EXTENDS WorkerClient, TLAPS

-----------------------------------------------------------------------------
(* The frames under way.                                                    *)

DownFrames ==
    [type : {"START", "POSITION"}, sid : Nat, arg : BOOLEAN]
    \cup [type : {"TRANSLATE"}, sid : Nat, arg : Settings]
    \cup [type : {"HELLO", "AUDIO", "STOP", "PAUSE", "RESUME", "MODEL_CTRL", "SHUTDOWN"},
          sid : Nat, arg : {0}]

UpFrames ==
    [type : {"STARTED"}, sid : Nat, seq : Nat, arg : BOOLEAN]
    \cup [type : {"ERROR"}, sid : Nat, seq : Nat,
          arg : {"rejected", "sourceOpen", "translation", "fatal"}]
    \cup [type : {"HELLO_ACK", "STATUS", "CAPTION", "PROGRESS"}, sid : Nat, seq : Nat, arg : {0}]

\* A stream d to the worker names no session after sid, and its STARTs are of
\* ever newer sessions, all of them newer than the accepted ones.
StartsFresh(d, sid, acc) ==
    /\ \A i \in 1 .. Len(d) : d[i].sid <= sid
    /\ \A i \in 1 .. Len(d) :
          d[i].type = "START" => d[i].sid >= 1 /\ \A a \in acc : a < d[i].sid
    /\ \A i, j \in 1 .. Len(d) :
          d[i].type = "START" /\ d[j].type = "START" /\ i < j => d[i].sid < d[j].sid

\* The settings in a stream d reach the session they are for, and the last
\* ones, or without any the worker's own, are those the client has cached.
SettingsOnTheWay(d, modern, cfg, sid, set) ==
    /\ \A i \in 1 .. Len(d) : d[i].type = "TRANSLATE" =>
          modern /\ d[i].sid = sid /\ \A j \in 1 .. Len(d) : j < i => d[j].type # "START"
    /\ \A i \in 1 .. Len(d) :
          d[i].type = "TRANSLATE" /\ (\A j \in 1 .. Len(d) : i < j => d[j].type # "TRANSLATE")
              => d[i].arg = cfg
    /\ cfg # "none" /\ (\A i \in 1 .. Len(d) : d[i].type # "TRANSLATE") => set = cfg
    /\ ~modern => set = "off" /\ cfg \in {"none", "off"}

\* A frame that pauses or resumes session sid.
Pausing(f, sid) == f.type \in {"POSITION", "PAUSE", "RESUME"} /\ f.sid = sid

\* The pause of session sid, of which the client believes p while it is in it
\* (active), and the worker, in session ws (wa: running), wp: the last frame
\* about it in the stream d, or without any the worker's own flag, is what the
\* client believes; a START of it begins it unpaused; and before the client is
\* in it (waiting) nothing is said of it.
PauseOnTheWay(d, sid, active, p, waiting, ws, wa, wp) ==
    /\ active /\ wa /\ ws = sid /\ (\A i \in 1 .. Len(d) : ~Pausing(d[i], sid)) => (wp <=> p)
    /\ \A i \in 1 .. Len(d) :
          active /\ Pausing(d[i], sid) /\ (\A j \in 1 .. Len(d) : i < j => ~Pausing(d[j], sid))
              => (PauseFlag(d[i]) <=> p)
    /\ \A k \in 1 .. Len(d) : d[k].type = "START" /\ d[k].sid = sid =>
          /\ \A i \in 1 .. Len(d) : Pausing(d[i], sid) => k < i
          /\ active /\ (\A i \in 1 .. Len(d) : ~Pausing(d[i], sid)) => ~p
    /\ waiting => /\ \A i \in 1 .. Len(d) : ~Pausing(d[i], sid)
                  /\ ws = sid => ~wp

\* The STARTEDs in a stream u are of accepted sessions, and of the one the
\* worker is in (ws; wa: running) they say its source mode.
StartedsTrue(u, acc, ws, wa, source) ==
    \A i \in 1 .. Len(u) : u[i].type = "STARTED" =>
        u[i].sid \in acc /\ (wa /\ u[i].sid = ws => (u[i].arg <=> source))

-----------------------------------------------------------------------------
(* The inductive invariant.                                                 *)

ProtocolTyped ==
    /\ ClientTypeOK
    /\ drawn \in 0 .. MaxSessions /\ calls \in Nat
    /\ down \in Seq(DownFrames) /\ up \in Seq(UpFrames)
    /\ returned \in Nat \X Nat

\* Without a transport there is no worker, no session, no call and nothing under
\* way, and no session while a call waits.
NoTransport ==
    /\ ~c.pipe => call = "none" /\ ~c.active /\ down = << >> /\ up = << >> /\ ~w.alive
    /\ call # "none" => ~c.active

\* The worker's session is an accepted one; once the client's is accepted, it is that one.
SessionsOrdered ==
    /\ c.sid <= drawn
    /\ StartsFresh(down, c.sid, accepted)
    /\ w.sid \in accepted \cup {0}
    /\ c.sid \in accepted /\ c.pipe => w.sid = c.sid

\* What the client believes of its session is what STARTED says.
SessionConfirmed ==
    /\ StartedsTrue(up, accepted, w.sid, w.active, w.source)
    /\ c.active /\ c.modern => c.sid \in accepted /\ (w.active => (c.source <=> w.source))

SettingsFollow == c.pipe => SettingsOnTheWay(down, c.modern, c.cfg, w.sid, w.set)

PauseFollows ==
    PauseOnTheWay(down, c.sid, c.active, c.paused, call \in {"start", "seek"},
                  w.sid, w.active, w.paused)

\* Frames are numbered from 2, and the last one returned is not newer than the
\* newest one seen.
FramesNumbered ==
    /\ w.seq >= 1 /\ \A i \in 1 .. Len(up) : up[i].seq >= 2
    /\ returned[1] < returned[2]
    /\ c.pipe => returned[2] <= c.seen \/ returned[2] = 1

ProtocolInv ==
    /\ ProtocolTyped
    /\ NoTransport
    /\ SessionsOrdered
    /\ SessionConfirmed
    /\ SettingsFollow
    /\ PauseFollows
    /\ FramesNumbered

-----------------------------------------------------------------------------
(* Streams: what a frame added at the end, or taken from the front, leaves. *)

\* The elements of a stream that a frame was added to.
LEMMA AppendFacts ==
    ASSUME NEW S, NEW d \in Seq(S), NEW f \in S
    PROVE  /\ Append(d, f) \in Seq(S) /\ Len(Append(d, f)) = Len(d) + 1 /\ Len(d) \in Nat
           /\ \A i \in 1 .. Len(d) : Append(d, f)[i] = d[i]
           /\ Append(d, f)[Len(d) + 1] = f
           /\ d \o <<f>> = Append(d, f)
  OBVIOUS

\* The elements of a stream whose first frame was taken.
LEMMA TailFacts ==
    ASSUME NEW S, NEW d \in Seq(S), d # << >>
    PROVE  /\ Tail(d) \in Seq(S) /\ Len(d) \in Nat /\ Len(d) >= 1 /\ Len(Tail(d)) = Len(d) - 1
           /\ \A i \in 1 .. Len(Tail(d)) : Tail(d)[i] = d[i + 1] /\ i + 1 \in 1 .. Len(d)
           /\ Head(d) = d[1] /\ d[1] \in S
  OBVIOUS

\* A frame of a session up to sid; a START of a session newer than all others.
LEMMA StartsAppend ==
    ASSUME NEW d \in Seq(DownFrames), NEW f \in DownFrames, NEW sid \in Nat, NEW old \in Nat,
           NEW acc \in SUBSET Nat, StartsFresh(d, old, acc), old <= sid, f.sid <= sid,
           f.type = "START" => f.sid >= 1 /\ old < f.sid /\ \A a \in acc : a < f.sid
    PROVE  StartsFresh(Append(d, f), sid, acc)
<1> DEFINE e == Append(d, f)
<1>1. /\ Len(e) = Len(d) + 1 /\ Len(d) \in Nat /\ e[Len(d) + 1] = f
      /\ \A i \in 1 .. Len(d) : e[i] = d[i]
  BY AppendFacts
<1>2. \A i \in 1 .. Len(d) : d[i] \in DownFrames /\ d[i].sid \in Nat
  BY DEF DownFrames
<1>3. f.sid \in Nat
  BY DEF DownFrames
<1> HIDE DEF e
<1>4. \A i \in 1 .. Len(e) : i \in 1 .. Len(d) \/ i = Len(d) + 1
  BY <1>1
<1>5. \A i \in 1 .. Len(e) : e[i].sid <= sid
  BY <1>1, <1>2, <1>3, <1>4 DEF StartsFresh
<1>6. \A i \in 1 .. Len(e) :
          e[i].type = "START" => e[i].sid >= 1 /\ \A a \in acc : a < e[i].sid
  BY <1>1, <1>4 DEF StartsFresh
<1>7. \A i, j \in 1 .. Len(e) :
          e[i].type = "START" /\ e[j].type = "START" /\ i < j => e[i].sid < e[j].sid
  BY SMTT(30), <1>1, <1>2, <1>3, <1>4 DEF StartsFresh
<1>8. QED
  BY <1>5, <1>6, <1>7 DEF StartsFresh, e

\* What remains of a stream, when no more sessions are accepted or its first
\* frame is the START of the one that is.
LEMMA StartsTail ==
    ASSUME NEW d \in Seq(DownFrames), d # << >>, NEW sid \in Nat, NEW acc \in SUBSET Nat,
           StartsFresh(d, sid, acc)
    PROVE  /\ StartsFresh(Tail(d), sid, acc)
           /\ Head(d).type = "START" => StartsFresh(Tail(d), sid, acc \cup {Head(d).sid})
<1> DEFINE e == Tail(d)
<1>1. /\ Len(e) = Len(d) - 1 /\ Len(d) \in Nat /\ Len(d) >= 1 /\ Head(d) = d[1]
      /\ \A i \in 1 .. Len(e) : e[i] = d[i + 1] /\ i + 1 \in 1 .. Len(d)
  BY TailFacts
<1> HIDE DEF e
<1>2. \A i \in 1 .. Len(e) : e[i].sid <= sid
  BY <1>1 DEF StartsFresh
<1>3. \A i \in 1 .. Len(e) :
          e[i].type = "START" => e[i].sid >= 1 /\ \A a \in acc : a < e[i].sid
  BY <1>1 DEF StartsFresh
<1>4. \A i, j \in 1 .. Len(e) :
          e[i].type = "START" /\ e[j].type = "START" /\ i < j => e[i].sid < e[j].sid
  <2> SUFFICES ASSUME NEW i \in 1 .. Len(e), NEW j \in 1 .. Len(e),
                      e[i].type = "START", e[j].type = "START", i < j
               PROVE  e[i].sid < e[j].sid
    OBVIOUS
  <2>1. i + 1 < j + 1 /\ e[i] = d[i + 1] /\ e[j] = d[j + 1]
        /\ i + 1 \in 1 .. Len(d) /\ j + 1 \in 1 .. Len(d)
    BY <1>1
  <2>2. QED
    BY <2>1 DEF StartsFresh
<1>5. ASSUME d[1].type = "START", NEW i \in 1 .. Len(e), e[i].type = "START"
      PROVE  d[1].sid < e[i].sid
  <2>1. 1 < i + 1 /\ e[i] = d[i + 1] /\ i + 1 \in 1 .. Len(d) /\ 1 \in 1 .. Len(d)
    BY <1>1
  <2>2. QED
    BY <1>5, <2>1 DEF StartsFresh
<1>6. QED
  BY <1>1, <1>2, <1>3, <1>4, <1>5 DEF StartsFresh, e

\* New settings for the worker's session, behind no START; or another frame.
LEMMA SettingsAppend ==
    ASSUME NEW d \in Seq(DownFrames), NEW f \in DownFrames, NEW modern, NEW cfg, NEW new,
           NEW sid, NEW set, SettingsOnTheWay(d, modern, cfg, sid, set),
           \/ f.type # "TRANSLATE" /\ new = cfg
           \/ /\ f.type = "TRANSLATE" /\ modern /\ f.sid = sid /\ f.arg = new
              /\ \A i \in 1 .. Len(d) : d[i].type # "START"
    PROVE  SettingsOnTheWay(Append(d, f), modern, new, sid, set)
<1> DEFINE e == Append(d, f)
<1>1. /\ Len(e) = Len(d) + 1 /\ Len(d) \in Nat /\ e[Len(d) + 1] = f
      /\ \A i \in 1 .. Len(d) : e[i] = d[i]
  BY AppendFacts
<1> HIDE DEF e
<1>2. /\ \A i \in 1 .. Len(e) : i \in 1 .. Len(d) \/ i = Len(d) + 1
      /\ \A i \in 1 .. Len(d) : i \in 1 .. Len(e) /\ i < Len(d) + 1
      /\ Len(d) + 1 \in 1 .. Len(e)
  BY <1>1
<1>3. ASSUME NEW i \in 1 .. Len(e), e[i].type = "TRANSLATE"
      PROVE  modern /\ e[i].sid = sid /\ \A j \in 1 .. Len(e) : j < i => e[j].type # "START"
  <2>1. CASE i \in 1 .. Len(d)
    <3>1. \A j \in 1 .. Len(e) : j < i => j \in 1 .. Len(d) /\ e[j] = d[j]
      BY <1>1, <1>2, <2>1
    <3>2. d[i].type = "TRANSLATE" /\ e[i] = d[i]
      BY <1>1, <1>3, <2>1
    <3>3. QED
      BY <2>1, <3>1, <3>2 DEF SettingsOnTheWay
  <2>2. CASE i = Len(d) + 1
    <3>1. \A j \in 1 .. Len(e) : j < i => j \in 1 .. Len(d) /\ e[j] = d[j]
      BY <1>1, <1>2, <2>2
    <3>2. e[i] = f
      BY <1>1, <2>2
    <3>3. QED
      BY <1>3, <3>1, <3>2
  <2>3. QED
    BY <1>2, <2>1, <2>2
<1>4. ASSUME NEW i \in 1 .. Len(e), e[i].type = "TRANSLATE",
             \A j \in 1 .. Len(e) : i < j => e[j].type # "TRANSLATE"
      PROVE  e[i].arg = new
  <2>1. CASE i \in 1 .. Len(d)
    <3>1. f.type # "TRANSLATE"
      BY <1>1, <1>2, <1>4, <2>1
    <3>2. \A j \in 1 .. Len(d) : i < j => d[j].type # "TRANSLATE"
      BY <1>1, <1>2, <1>4
    <3>3. QED
      BY <1>1, <1>4, <2>1, <3>1, <3>2 DEF SettingsOnTheWay
  <2>2. CASE i = Len(d) + 1
    BY <1>1, <1>4, <2>2
  <2>3. QED
    BY <1>2, <2>1, <2>2
<1>5. new # "none" /\ (\A i \in 1 .. Len(e) : e[i].type # "TRANSLATE") => set = new
  BY <1>1, <1>2 DEF SettingsOnTheWay
<1>6. ~modern => set = "off" /\ new \in {"none", "off"}
  BY DEF SettingsOnTheWay
<1>7. QED
  BY <1>3, <1>4, <1>5, <1>6 DEF SettingsOnTheWay, e

\* What remains of the settings when the worker takes a frame: it has taken
\* over the settings, or begun session new, behind which there are none.
LEMMA SettingsTail ==
    ASSUME NEW d \in Seq(DownFrames), d # << >>, NEW modern, NEW cfg, NEW sid, NEW set,
           SettingsOnTheWay(d, modern, cfg, sid, set), NEW new, NEW taken,
           Head(d).type # "START" => new = sid,
           IF Head(d).type = "TRANSLATE" THEN taken = Head(d).arg ELSE taken = set
    PROVE  SettingsOnTheWay(Tail(d), modern, cfg, new, taken)
<1> DEFINE e == Tail(d)
<1>1. /\ Len(e) = Len(d) - 1 /\ Len(d) \in Nat /\ Len(d) >= 1 /\ Head(d) = d[1]
      /\ \A i \in 1 .. Len(e) : e[i] = d[i + 1] /\ i + 1 \in 1 .. Len(d)
  BY TailFacts
<1> HIDE DEF e
<1>2. 1 \in 1 .. Len(d) /\ \A j \in 1 .. Len(d) : j = 1 \/ (j - 1 \in 1 .. Len(e) /\ e[j - 1] = d[j])
  BY <1>1
<1>3. ASSUME NEW i \in 1 .. Len(e), e[i].type = "TRANSLATE"
      PROVE  modern /\ e[i].sid = new /\ \A j \in 1 .. Len(e) : j < i => e[j].type # "START"
  <2>1. e[i] = d[i + 1] /\ i + 1 \in 1 .. Len(d) /\ 1 < i + 1
    BY <1>1
  <2>2. modern /\ d[i + 1].sid = sid /\ d[1].type # "START"
    BY <1>2, <1>3, <2>1 DEF SettingsOnTheWay
  <2>3. ASSUME NEW j \in 1 .. Len(e), j < i PROVE e[j].type # "START"
    <3>1. e[j] = d[j + 1] /\ j + 1 \in 1 .. Len(d) /\ j + 1 < i + 1
      BY <1>1, <2>3
    <3>2. QED
      BY <1>3, <2>1, <3>1 DEF SettingsOnTheWay
  <2>4. QED
    BY <1>1, <2>1, <2>2, <2>3
<1>4. ASSUME NEW i \in 1 .. Len(e), e[i].type = "TRANSLATE",
             \A j \in 1 .. Len(e) : i < j => e[j].type # "TRANSLATE"
      PROVE  e[i].arg = cfg
  <2>1. e[i] = d[i + 1] /\ i + 1 \in 1 .. Len(d)
    BY <1>1
  <2>2. ASSUME NEW j \in 1 .. Len(d), i + 1 < j PROVE d[j].type # "TRANSLATE"
    <3>1. j - 1 \in 1 .. Len(e) /\ e[j - 1] = d[j] /\ i < j - 1
      BY <1>1, <1>2, <2>2
    <3>2. QED
      BY <1>4, <3>1
  <2>3. QED
    BY <1>4, <2>1, <2>2 DEF SettingsOnTheWay
<1>5. ASSUME cfg # "none", \A i \in 1 .. Len(e) : e[i].type # "TRANSLATE"
      PROVE  taken = cfg
  <2>1. \A j \in 1 .. Len(d) : 1 < j => d[j].type # "TRANSLATE"
    BY <1>1, <1>2, <1>5
  <2>2. CASE d[1].type = "TRANSLATE"
    BY <1>1, <1>2, <2>1, <2>2 DEF SettingsOnTheWay
  <2>3. CASE d[1].type # "TRANSLATE"
    <3>1. \A j \in 1 .. Len(d) : d[j].type # "TRANSLATE"
      BY <1>2, <1>5, <2>3
    <3>2. QED
      BY <1>1, <1>5, <2>3, <3>1 DEF SettingsOnTheWay
  <2>4. QED
    BY <2>2, <2>3
<1>6. ~modern => taken = "off" /\ cfg \in {"none", "off"}
  BY <1>1, <1>2 DEF SettingsOnTheWay
<1>7. QED
  BY <1>3, <1>4, <1>5, <1>6 DEF SettingsOnTheWay, e

\* A frame that says nothing of the session's pause.
LEMMA PauseAppend ==
    ASSUME NEW d \in Seq(DownFrames), NEW f \in DownFrames, NEW sid, NEW active, NEW p,
           NEW waiting, NEW ws, NEW wa, NEW wp,
           PauseOnTheWay(d, sid, active, p, waiting, ws, wa, wp), NEW still, still => active,
           ~Pausing(f, sid), ~(f.type = "START" /\ f.sid = sid)
    PROVE  PauseOnTheWay(Append(d, f), sid, still, p, waiting, ws, wa, wp)
<1> DEFINE e == Append(d, f)
<1>1. /\ Len(e) = Len(d) + 1 /\ Len(d) \in Nat /\ e[Len(d) + 1] = f
      /\ \A i \in 1 .. Len(d) : e[i] = d[i]
  BY AppendFacts
<1> HIDE DEF e
<1>2. /\ \A i \in 1 .. Len(e) : i \in 1 .. Len(d) \/ i = Len(d) + 1
      /\ \A i \in 1 .. Len(d) : i \in 1 .. Len(e)
  BY <1>1
<1>3. \A i \in 1 .. Len(e) : Pausing(e[i], sid) => i \in 1 .. Len(d) /\ e[i] = d[i]
  BY <1>1, <1>2
<1>4. (\A i \in 1 .. Len(e) : ~Pausing(e[i], sid)) <=> (\A i \in 1 .. Len(d) : ~Pausing(d[i], sid))
  BY <1>1, <1>2, <1>3
<1>5. ASSUME NEW i \in 1 .. Len(e), still, Pausing(e[i], sid),
             \A j \in 1 .. Len(e) : i < j => ~Pausing(e[j], sid)
      PROVE  PauseFlag(e[i]) <=> p
  <2>1. i \in 1 .. Len(d) /\ e[i] = d[i]
    BY <1>3, <1>5
  <2>2. \A j \in 1 .. Len(d) : i < j => ~Pausing(d[j], sid)
    BY <1>1, <1>2, <1>5
  <2>3. QED
    BY <1>5, <2>1, <2>2 DEF PauseOnTheWay
<1>6. ASSUME NEW k \in 1 .. Len(e), e[k].type = "START", e[k].sid = sid
      PROVE  /\ \A i \in 1 .. Len(e) : Pausing(e[i], sid) => k < i
             /\ still /\ (\A i \in 1 .. Len(e) : ~Pausing(e[i], sid)) => ~p
  <2>1. k \in 1 .. Len(d) /\ e[k] = d[k]
    BY <1>1, <1>2, <1>6
  <2>2. QED
    BY <1>3, <1>4, <1>6, <2>1 DEF PauseOnTheWay
<1>7. still /\ wa /\ ws = sid /\ (\A i \in 1 .. Len(e) : ~Pausing(e[i], sid)) => (wp <=> p)
  BY <1>4 DEF PauseOnTheWay
<1>8. waiting => (\A i \in 1 .. Len(e) : ~Pausing(e[i], sid)) /\ (ws = sid => ~wp)
  BY <1>4 DEF PauseOnTheWay
<1>9. QED
  BY <1>5, <1>6, <1>7, <1>8 DEF PauseOnTheWay, e

\* A frame about the session's pause: the client believes what it says.
LEMMA PauseSaid ==
    ASSUME NEW d \in Seq(DownFrames), NEW f \in DownFrames, NEW sid, NEW active, NEW p,
           NEW waiting, NEW ws, NEW wa, NEW wp,
           PauseOnTheWay(d, sid, active, p, waiting, ws, wa, wp), NEW now, NEW q,
           Pausing(f, sid), q <=> PauseFlag(f)
    PROVE  PauseOnTheWay(Append(d, f), sid, now, q, FALSE, ws, wa, wp)
<1> DEFINE e == Append(d, f)
<1>1. /\ Len(e) = Len(d) + 1 /\ Len(d) \in Nat /\ e[Len(d) + 1] = f
      /\ \A i \in 1 .. Len(d) : e[i] = d[i]
  BY AppendFacts
<1> HIDE DEF e
<1>2. /\ \A i \in 1 .. Len(e) : i \in 1 .. Len(d) \/ i = Len(d) + 1
      /\ \A i \in 1 .. Len(d) : i \in 1 .. Len(e) /\ i < Len(d) + 1
      /\ Len(d) + 1 \in 1 .. Len(e)
  BY <1>1
<1>3. ~(\A i \in 1 .. Len(e) : ~Pausing(e[i], sid))
  BY <1>1, <1>2
<1>4. ASSUME NEW i \in 1 .. Len(e), \A j \in 1 .. Len(e) : i < j => ~Pausing(e[j], sid)
      PROVE  PauseFlag(e[i]) <=> q
  <2>1. i = Len(d) + 1
    BY <1>1, <1>2, <1>4
  <2>2. e[i] = f
    BY <1>1, <2>1
  <2>3. QED
    BY <2>2
<1>5. f.type # "START"
  BY DEF Pausing
<1>6. ASSUME NEW k \in 1 .. Len(e), e[k].type = "START", e[k].sid = sid
      PROVE  \A i \in 1 .. Len(e) : Pausing(e[i], sid) => k < i
  <2>1. k \in 1 .. Len(d) /\ e[k] = d[k]
    BY <1>1, <1>2, <1>5, <1>6
  <2>2. QED
    BY <1>1, <1>2, <1>6, <2>1 DEF PauseOnTheWay
<1>7. QED
  BY <1>3, <1>4, <1>6 DEF PauseOnTheWay, e

\* The START of a session nothing was said of before.
LEMMA PauseStart ==
    ASSUME NEW d \in Seq(DownFrames), NEW f \in DownFrames, NEW sid, NEW p, NEW ws, NEW wa, NEW wp,
           f.type = "START", f.sid = sid, ws # sid, \A i \in 1 .. Len(d) : d[i].sid # sid
    PROVE  PauseOnTheWay(Append(d, f), sid, FALSE, p, TRUE, ws, wa, wp)
<1> DEFINE e == Append(d, f)
<1>1. /\ Len(e) = Len(d) + 1 /\ Len(d) \in Nat /\ e[Len(d) + 1] = f
      /\ \A i \in 1 .. Len(d) : e[i] = d[i]
  BY AppendFacts
<1> HIDE DEF e
<1>2. \A i \in 1 .. Len(e) : i \in 1 .. Len(d) \/ i = Len(d) + 1
  BY <1>1
<1>3. \A i \in 1 .. Len(e) : ~Pausing(e[i], sid)
  BY <1>1, <1>2 DEF Pausing
<1>4. QED
  BY <1>3 DEF PauseOnTheWay, e

\* The worker takes a frame: its pause flag now says what the frame says when
\* that is about the session and the worker runs it, and a session begins unpaused.
LEMMA PauseTail ==
    ASSUME NEW d \in Seq(DownFrames), d # << >>, NEW sid, NEW active, NEW p, NEW waiting,
           NEW ws, NEW wa, NEW wp, PauseOnTheWay(d, sid, active, p, waiting, ws, wa, wp),
           NEW ws2, NEW wa2, NEW wp2,
           \/ ws2 = ws /\ (wa2 => wa) /\ ~Pausing(Head(d), sid) /\ (ws = sid => (wp2 <=> wp))
           \/ ws2 = ws /\ (wa2 => wa) /\ Pausing(Head(d), sid)
              /\ (wa2 /\ ws = sid => (wp2 <=> PauseFlag(Head(d))))
           \/ Head(d).type = "START" /\ ws2 = Head(d).sid /\ ~wp2
    PROVE  PauseOnTheWay(Tail(d), sid, active, p, waiting, ws2, wa2, wp2)
<1> DEFINE e == Tail(d)
<1>1. /\ Len(e) = Len(d) - 1 /\ Len(d) \in Nat /\ Len(d) >= 1 /\ Head(d) = d[1]
      /\ \A i \in 1 .. Len(e) : e[i] = d[i + 1] /\ i + 1 \in 1 .. Len(d)
  BY TailFacts
<1> HIDE DEF e
<1>2. 1 \in 1 .. Len(d) /\ \A j \in 1 .. Len(d) : j = 1 \/ (j - 1 \in 1 .. Len(e) /\ e[j - 1] = d[j])
  BY <1>1
<1>3. ASSUME NEW i \in 1 .. Len(e), active, Pausing(e[i], sid),
             \A j \in 1 .. Len(e) : i < j => ~Pausing(e[j], sid)
      PROVE  PauseFlag(e[i]) <=> p
  <2>1. e[i] = d[i + 1] /\ i + 1 \in 1 .. Len(d)
    BY <1>1
  <2>2. ASSUME NEW j \in 1 .. Len(d), i + 1 < j PROVE ~Pausing(d[j], sid)
    <3>1. j - 1 \in 1 .. Len(e) /\ e[j - 1] = d[j] /\ i < j - 1
      BY <1>1, <1>2, <2>2
    <3>2. QED
      BY <1>3, <3>1
  <2>3. QED
    BY <1>3, <2>1, <2>2 DEF PauseOnTheWay
<1>4. (\A i \in 1 .. Len(e) : ~Pausing(e[i], sid)) =>
          \A j \in 1 .. Len(d) : Pausing(d[j], sid) => j = 1
  BY <1>2
<1>5. ASSUME NEW k \in 1 .. Len(e), e[k].type = "START", e[k].sid = sid
      PROVE  /\ \A i \in 1 .. Len(e) : Pausing(e[i], sid) => k < i
             /\ active /\ (\A i \in 1 .. Len(e) : ~Pausing(e[i], sid)) => ~p
  <2>1. e[k] = d[k + 1] /\ k + 1 \in 1 .. Len(d) /\ 1 < k + 1
    BY <1>1
  <2>2. ASSUME NEW i \in 1 .. Len(e), Pausing(e[i], sid) PROVE k < i
    <3>1. e[i] = d[i + 1] /\ i + 1 \in 1 .. Len(d)
      BY <1>1
    <3>2. k + 1 < i + 1
      BY <1>5, <2>1, <2>2, <3>1 DEF PauseOnTheWay
    <3>3. QED
      BY <3>2
  <2>3. ~Pausing(d[1], sid)
    <3>1. Pausing(d[1], sid) => k + 1 < 1
      BY <1>2, <1>5, <2>1 DEF PauseOnTheWay
    <3>2. QED
      BY <3>1
  <2>4. active /\ (\A i \in 1 .. Len(e) : ~Pausing(e[i], sid)) => ~p
    BY <1>4, <1>5, <2>1, <2>3 DEF PauseOnTheWay
  <2>5. QED
    BY <2>2, <2>4
<1>6. waiting => (\A i \in 1 .. Len(e) : ~Pausing(e[i], sid)) /\ ~Pausing(d[1], sid)
  BY <1>1, <1>2 DEF PauseOnTheWay
<1>7. waiting => (ws2 = sid => ~wp2)
  BY <1>1, <1>6 DEF PauseOnTheWay
<1>8. ASSUME active, wa2, ws2 = sid, \A i \in 1 .. Len(e) : ~Pausing(e[i], sid)
      PROVE  wp2 <=> p
  <2>1. CASE ws2 = ws /\ (wa2 => wa) /\ ~Pausing(d[1], sid) /\ (ws = sid => (wp2 <=> wp))
    <3>1. \A j \in 1 .. Len(d) : ~Pausing(d[j], sid)
      BY <1>4, <1>8, <2>1
    <3>2. QED
      BY <1>8, <2>1, <3>1 DEF PauseOnTheWay
  <2>2. CASE ws2 = ws /\ Pausing(d[1], sid) /\ (wa2 /\ ws = sid => (wp2 <=> PauseFlag(d[1])))
    <3>1. \A j \in 1 .. Len(d) : 1 < j => ~Pausing(d[j], sid)
      BY <1>4, <1>8
    <3>2. QED
      BY <1>2, <1>8, <2>2, <3>1 DEF PauseOnTheWay
  <2>3. CASE d[1].type = "START" /\ ws2 = d[1].sid /\ ~wp2
    <3>1. ~Pausing(d[1], sid)
      BY <2>3 DEF Pausing
    <3>2. \A j \in 1 .. Len(d) : ~Pausing(d[j], sid)
      BY <1>4, <1>8, <3>1
    <3>3. QED
      BY <1>2, <1>8, <2>3, <3>2 DEF PauseOnTheWay
  <2>4. QED
    BY <1>1, <2>1, <2>2, <2>3
<1>9. QED
  BY <1>3, <1>5, <1>6, <1>7, <1>8 DEF PauseOnTheWay, e

\* When the session is confirmed, the client believes it unpaused.
LEMMA PauseConfirmed ==
    ASSUME NEW d \in Seq(DownFrames), NEW sid, NEW p, NEW active, NEW ws, NEW wa, NEW wp,
           PauseOnTheWay(d, sid, active, p, TRUE, ws, wa, wp)
    PROVE  PauseOnTheWay(d, sid, TRUE, FALSE, FALSE, ws, wa, wp)
  BY DEF PauseOnTheWay

\* The worker's session ends, or it is another one from now on; the client
\* leaves its session or stops waiting for it.
LEMMA PauseWeaker ==
    ASSUME NEW d \in Seq(DownFrames), NEW sid, NEW p, NEW active, NEW waiting, NEW ws, NEW wa, NEW wp,
           PauseOnTheWay(d, sid, active, p, waiting, ws, wa, wp),
           NEW active2, active2 => active, NEW waiting2, waiting2 => waiting, NEW wa2, wa2 => wa
    PROVE  PauseOnTheWay(d, sid, active2, p, waiting2, ws, wa2, wp)
  BY DEF PauseOnTheWay

-----------------------------------------------------------------------------
\* One more frame from the worker, a STARTED of its own session or no STARTED.
LEMMA StartedsAppend ==
    ASSUME NEW u \in Seq(UpFrames), NEW f \in UpFrames, NEW acc, NEW ws, NEW wa, NEW source,
           StartedsTrue(u, acc, ws, wa, source),
           f.type = "STARTED" => f.sid \in acc /\ (f.sid = ws => (f.arg <=> source))
    PROVE  StartedsTrue(Append(u, f), acc, ws, wa, source)
<1> DEFINE e == Append(u, f)
<1>1. /\ Len(e) = Len(u) + 1 /\ Len(u) \in Nat /\ e[Len(u) + 1] = f
      /\ \A i \in 1 .. Len(u) : e[i] = u[i]
  BY AppendFacts
<1> HIDE DEF e
<1>2. \A i \in 1 .. Len(e) : i \in 1 .. Len(u) \/ i = Len(u) + 1
  BY <1>1
<1>3. QED
  BY <1>1, <1>2 DEF StartedsTrue, e

\* One frame fewer.
LEMMA StartedsTail ==
    ASSUME NEW u \in Seq(UpFrames), u # << >>, NEW acc, NEW ws, NEW wa, NEW source,
           StartedsTrue(u, acc, ws, wa, source)
    PROVE  StartedsTrue(Tail(u), acc, ws, wa, source)
  BY TailFacts DEF StartedsTrue

\* The worker's session ends, or a new one is accepted.
LEMMA StartedsStep ==
    ASSUME NEW u \in Seq(UpFrames), NEW acc, NEW ws, NEW wa, NEW source,
           StartedsTrue(u, acc, ws, wa, source), NEW acc2, NEW ws2, NEW wa2, NEW source2,
           acc \subseteq acc2,
           \/ ws2 = ws /\ (wa2 => wa /\ (source2 <=> source))
           \/ ws2 \notin acc
    PROVE  StartedsTrue(u, acc2, ws2, wa2, source2)
  BY DEF StartedsTrue

-----------------------------------------------------------------------------
(* The whole state.                                                         *)

\* The clients and the workers there are.
Clients == [pipe : BOOLEAN, sid : 0 .. MaxSessions, active : BOOLEAN, source : BOOLEAN,
            asked : BOOLEAN, url : BOOLEAN, seen : Nat, cfg : Settings \cup {"none"},
            modern : BOOLEAN, paused : BOOLEAN]
WorkersTyped == [alive : BOOLEAN, auth : BOOLEAN, sid : 0 .. MaxSessions,
            active : BOOLEAN, source : BOOLEAN, paused : BOOLEAN, set : Settings,
            seq : Nat, loading : BOOLEAN]

\* The types, by name.
LEMMA TypeFacts ==
    ASSUME ProtocolInv
    PROVE  /\ c \in Clients /\ w \in WorkersTyped
           /\ call \in {"none", "hello", "start", "seek"}
           /\ calls \in Nat /\ calls <= MaxCalls /\ MaxCalls \in Nat
           /\ drawn \in Nat /\ drawn <= MaxSessions /\ MaxSessions \in Nat
           /\ accepted \in SUBSET Nat /\ accepted \subseteq 1 .. drawn
           /\ down \in Seq(DownFrames) /\ up \in Seq(UpFrames) /\ returned \in Nat \X Nat
           /\ c.sid \in Nat /\ w.sid \in Nat /\ w.seq \in Nat /\ c.seen \in Nat
  BY SMTT(30), ClientAssumption DEF ProtocolInv, ProtocolTyped, ClientTypeOK, Clients, WorkersTyped

\* What has to be shown of the types after a step.
LEMMA TypesFollow ==
    ASSUME c' \in Clients, w' \in WorkersTyped, call' \in {"none", "hello", "start", "seek"},
           calls' \in Nat, calls' <= MaxCalls, drawn' \in 0 .. MaxSessions,
           accepted' \subseteq 1 .. drawn',
           down' \in Seq(DownFrames), up' \in Seq(UpFrames), returned' \in Nat \X Nat
    PROVE  ProtocolTyped'
  BY DEF ProtocolTyped, ClientTypeOK, Clients, WorkersTyped

\* There is nothing to begin with.
LEMMA ProtocolInit == Init => ProtocolInv
<1> SUFFICES ASSUME Init PROVE ProtocolInv
  OBVIOUS
<1> USE ClientAssumption
<1>1. /\ c = NoClient /\ w = NoWorker /\ call = "none" /\ down = << >> /\ up = << >> /\ drawn = 0
      /\ calls = 0 /\ accepted = {} /\ returned = <<0, 1>>
  BY DEF Init
<1>2. NoClient \in Clients /\ NoWorker \in WorkersTyped
  BY DEF NoClient, NoWorker, Clients, WorkersTyped
<1>3. Len(down) = 0 /\ Len(up) = 0
  BY <1>1
<1>4. ProtocolTyped
  <2>1. down \in Seq(DownFrames) /\ up \in Seq(UpFrames) /\ returned \in Nat \X Nat
    BY <1>1
  <2>2. calls \in Nat /\ calls <= MaxCalls /\ drawn \in 0 .. MaxSessions /\ accepted \subseteq 1 .. drawn
    BY <1>1
  <2>3. QED
    BY <1>1, <1>2, <2>1, <2>2 DEF ProtocolTyped, ClientTypeOK, Clients, WorkersTyped
<1>5. ~c.pipe /\ ~c.active /\ c.sid = 0 /\ w.sid = 0 /\ w.seq = 1 /\ ~w.alive
  BY <1>1 DEF NoClient, NoWorker
<1>6. NoTransport
  BY <1>1, <1>5 DEF NoTransport
<1>7. SessionsOrdered
  BY <1>1, <1>3, <1>5 DEF SessionsOrdered, StartsFresh
<1>8. SessionConfirmed /\ SettingsFollow
  BY <1>1, <1>3, <1>5 DEF SessionConfirmed, StartedsTrue, SettingsFollow
<1>9. PauseFollows
  BY <1>1, <1>3, <1>5 DEF PauseFollows, PauseOnTheWay
<1>10. FramesNumbered
  BY <1>1, <1>3, <1>5 DEF FramesNumbered
<1>11. QED
  BY <1>4, <1>6, <1>7, <1>8, <1>9, <1>10 DEF ProtocolInv

\* vw_worker_client_drop_transport and vw_worker_client_disconnect leave nothing
\* behind that a later transport could take for its own.
LEMMA ClosedKeeps ==
    ASSUME ProtocolInv, NEW client \in {Dropped, NoClient}, Closed(client),
           drawn' \in 0 .. MaxSessions, drawn <= drawn', calls' \in Nat, calls' <= MaxCalls,
           UNCHANGED <<accepted, returned>>
    PROVE  ProtocolInv'
<1> USE ClientAssumption
<1>0. /\ c \in Clients /\ MaxSessions \in Nat /\ drawn \in Nat /\ accepted \subseteq 1 .. drawn
      /\ returned \in Nat \X Nat /\ c.sid \in Nat
  BY TypeFacts
<1>1. /\ c' = client /\ w' = NoWorker /\ call' = "none" /\ down' = << >> /\ up' = << >>
  BY DEF Closed
<1>2. client \in Clients /\ ~client.pipe /\ ~client.active /\ client.sid \in {c.sid, 0}
  <2>1. CASE client = Dropped
    BY <1>0, <2>1 DEF Dropped, Clients
  <2>2. CASE client = NoClient
    BY <1>0, <2>2 DEF NoClient, Clients
  <2>3. QED
    BY <2>1, <2>2
<1>3. Len(down') = 0 /\ Len(up') = 0
  BY <1>1
<1>4. NoWorker \in WorkersTyped /\ NoWorker.sid = 0 /\ NoWorker.seq = 1 /\ ~NoWorker.alive
  BY DEF NoWorker, WorkersTyped
<1>5. ProtocolTyped'
  <2>1. down' \in Seq(DownFrames) /\ up' \in Seq(UpFrames) /\ accepted' \subseteq 1 .. drawn'
    BY <1>0, <1>1
  <2>2. QED
    BY <1>0, <1>1, <1>2, <1>4, <2>1, TypesFollow
<1>6. NoTransport'
  BY <1>1, <1>2, <1>4 DEF NoTransport
<1>7. SessionsOrdered'
  <2>1. c'.sid <= drawn'
    BY <1>0, <1>1, <1>2 DEF ProtocolInv, SessionsOrdered
  <2>2. QED
    BY <1>1, <1>2, <1>3, <1>4, <2>1 DEF SessionsOrdered, StartsFresh
<1>8. SessionConfirmed' /\ SettingsFollow'
  BY <1>1, <1>2, <1>3 DEF SessionConfirmed, StartedsTrue, SettingsFollow
<1>9. PauseFollows'
  BY <1>1, <1>2, <1>3 DEF PauseFollows, PauseOnTheWay
<1>10. FramesNumbered'
  BY <1>1, <1>2, <1>3, <1>4 DEF ProtocolInv, FramesNumbered
<1>11. QED
  BY <1>5, <1>6, <1>7, <1>8, <1>9, <1>10 DEF ProtocolInv

-----------------------------------------------------------------------------
(* The client reads.                                                        *)

\* A frame is read, and perhaps its number remembered and the call ended: what
\* the client believes of its session stays.
LEMMA ReadKeeps ==
    ASSUME ProtocolInv, up # << >>, up' = Tail(up), call' \in {call, "none"},
           c' \in Clients, c'.pipe = c.pipe, c'.sid = c.sid, c'.active = c.active,
           c'.source = c.source, c'.cfg = c.cfg, c'.modern = c.modern, c'.paused = c.paused,
           UNCHANGED <<w, down, drawn, calls, accepted>>,
           returned' \in Nat \X Nat, returned'[1] < returned'[2],
           c.pipe => returned'[2] <= c'.seen \/ returned'[2] = 1
    PROVE  ProtocolInv'
<1>0. /\ w \in WorkersTyped /\ call \in {"none", "hello", "start", "seek"} /\ calls \in Nat
      /\ calls <= MaxCalls /\ drawn \in 0 .. MaxSessions /\ accepted \subseteq 1 .. drawn
      /\ down \in Seq(DownFrames) /\ up \in Seq(UpFrames)
  BY TypeFacts
<1>1. /\ up' \in Seq(UpFrames) /\ Len(up) \in Nat /\ Len(up') = Len(up) - 1
      /\ \A i \in 1 .. Len(up') : up'[i] = up[i + 1] /\ i + 1 \in 1 .. Len(up)
  BY <1>0, TailFacts
<1>2. ProtocolTyped'
  BY <1>0, <1>1, TypesFollow
<1>3. NoTransport'
  BY DEF ProtocolInv, NoTransport
<1>4. SessionsOrdered'
  BY DEF ProtocolInv, SessionsOrdered
<1>5. SessionConfirmed'
  <2>1. StartedsTrue(up', accepted, w.sid, w.active, w.source)
    BY <1>0, StartedsTail DEF ProtocolInv, SessionConfirmed
  <2>2. QED
    BY <2>1 DEF ProtocolInv, SessionConfirmed
<1>6. SettingsFollow'
  BY DEF ProtocolInv, SettingsFollow
<1>7. PauseFollows'
  <2>1. PauseOnTheWay(down, c.sid, c.active, c.paused, call' \in {"start", "seek"},
                      w.sid, w.active, w.paused)
    BY DEF ProtocolInv, PauseFollows, PauseOnTheWay
  <2>2. QED
    BY <2>1 DEF PauseFollows
<1>8. FramesNumbered'
  BY <1>1 DEF ProtocolInv, FramesNumbered
<1>9. QED
  BY <1>2, <1>3, <1>4, <1>5, <1>6, <1>7, <1>8 DEF ProtocolInv

\* HELLO_ACK, and what a START handshake reads over or gives up on.
LEMMA WaitKeepsProtocol ==
    ASSUME ProtocolInv, Ack \/ StartError \/ StartDrains
    PROVE  ProtocolInv'
<1>1. /\ up # << >> /\ up' = Tail(up) /\ call' \in {call, "none"}
      /\ UNCHANGED <<c, w, down, drawn, calls, accepted, returned>>
  BY DEF Ack, StartError, StartDrains, WaitKeeps, CallKeeps
<1>2. /\ c \in Clients /\ returned \in Nat \X Nat
  BY TypeFacts
<1>3. /\ returned[1] < returned[2] /\ (c.pipe => returned[2] <= c.seen \/ returned[2] = 1)
  BY DEF ProtocolInv, FramesNumbered
<1>4. QED
  BY <1>1, <1>2, <1>3, ReadKeeps

\* vw_worker_client_receive_frame returns a frame only when it is newer than
\* everything before it.
LEMMA ReceiveKeeps ==
    ASSUME ProtocolInv, ReceiveFrame
    PROVE  ProtocolInv'
<1> DEFINE f == Head(up)
           n == IF Stale(f) THEN c.seen ELSE f.seq
<1>0. c \in Clients /\ returned \in Nat \X Nat /\ up \in Seq(UpFrames) /\ c.seen \in Nat
  BY TypeFacts
<1>1. /\ c.pipe /\ up # << >> /\ up' = Tail(up) /\ c' = [c EXCEPT !.seen = n]
      /\ returned' = IF ~Stale(f) /\ f.type \in Returned THEN <<returned[2], f.seq>> ELSE returned
      /\ UNCHANGED <<call, w, down, drawn, calls, accepted>>
  BY DEF ReceiveFrame, Idle
<1>2. f = up[1] /\ f \in UpFrames /\ 1 \in 1 .. Len(up)
  BY <1>0, <1>1, TailFacts
<1>3. f.seq \in Nat /\ f.seq >= 2
  BY <1>2 DEF UpFrames, ProtocolInv, FramesNumbered
<1>4. n \in Nat /\ n >= c.seen /\ (~Stale(f) => f.seq > c.seen /\ n = f.seq)
  BY <1>0, <1>3 DEF Stale
<1>5. /\ returned[1] < returned[2] /\ (returned[2] <= c.seen \/ returned[2] = 1)
      /\ returned[1] \in Nat /\ returned[2] \in Nat
  BY <1>0, <1>1 DEF ProtocolInv, FramesNumbered
<1> HIDE DEF n, f
<1>6. /\ c' \in Clients /\ c'.pipe = c.pipe /\ c'.sid = c.sid /\ c'.active = c.active
      /\ c'.source = c.source /\ c'.cfg = c.cfg /\ c'.modern = c.modern /\ c'.paused = c.paused
      /\ c'.seen = n
  BY <1>0, <1>1, <1>4 DEF Clients
<1>7. /\ returned' \in Nat \X Nat /\ returned'[1] < returned'[2]
      /\ returned'[2] <= n \/ returned'[2] = 1
  <2>1. CASE returned' = <<returned[2], f.seq>> /\ ~Stale(f)
    <3>1. returned'[1] = returned[2] /\ returned'[2] = f.seq
      BY <2>1
    <3>2. returned[2] < f.seq /\ f.seq <= n
      BY <1>0, <1>3, <1>4, <1>5, <2>1
    <3>3. returned' \in Nat \X Nat
      BY <1>3, <1>5, <2>1
    <3>4. QED
      BY <3>1, <3>2, <3>3
  <2>2. CASE returned' = returned
    <3>1. returned'[1] = returned[1] /\ returned'[2] = returned[2]
      BY <2>2
    <3>2. QED
      BY <1>0, <1>4, <1>5, <2>2, <3>1
  <2>3. QED
    BY <1>1, <2>1, <2>2
<1>8. QED
  BY <1>1, <1>6, <1>7, ReadKeeps

-----------------------------------------------------------------------------
(* The client writes.                                                       *)

\* A frame goes out that says nothing of the settings or the pause of the
\* client's session; the client may leave the session with it.
LEMMA PlainSend ==
    ASSUME ProtocolInv, c.pipe, call = "none", call' = "none",
           NEW f \in DownFrames, down' = Append(down, f), f.sid <= c.sid,
           f.type \in {"AUDIO", "STOP", "MODEL_CTRL", "SHUTDOWN"},
           c' \in Clients, c'.pipe = c.pipe, c'.sid = c.sid, c'.active => c.active,
           c'.source = c.source, c'.cfg = c.cfg, c'.modern = c.modern, c'.paused = c.paused,
           c'.seen = c.seen,
           calls' \in Nat, calls' <= MaxCalls, UNCHANGED <<w, up, drawn, accepted, returned>>
    PROVE  ProtocolInv'
<1>0. /\ w \in WorkersTyped /\ drawn \in 0 .. MaxSessions /\ accepted \subseteq 1 .. drawn
      /\ accepted \in SUBSET Nat /\ c.sid \in Nat /\ returned \in Nat \X Nat
      /\ down \in Seq(DownFrames) /\ up \in Seq(UpFrames)
  BY SMTT(30), TypeFacts
<1>1. down' \in Seq(DownFrames)
  BY <1>0, AppendFacts
<1>2. ProtocolTyped'
  BY <1>0, <1>1, TypesFollow
<1>3. NoTransport'
  BY DEF ProtocolInv, NoTransport
<1>4. SessionsOrdered'
  <2>1. StartsFresh(down', c.sid, accepted)
    BY <1>0, StartsAppend DEF ProtocolInv, SessionsOrdered
  <2>2. QED
    BY <2>1 DEF ProtocolInv, SessionsOrdered
<1>5. SessionConfirmed'
  BY DEF ProtocolInv, SessionConfirmed
<1>6. SettingsFollow'
  <2>1. SettingsOnTheWay(down', c.modern, c.cfg, w.sid, w.set)
    BY <1>0, SettingsAppend DEF ProtocolInv, SettingsFollow
  <2>2. QED
    BY <2>1 DEF SettingsFollow
<1>7. PauseFollows'
  <2>1. PauseOnTheWay(down, c.sid, c.active, c.paused, FALSE, w.sid, w.active, w.paused)
    BY DEF ProtocolInv, PauseFollows, PauseOnTheWay
  <2>2. PauseOnTheWay(down', c.sid, c'.active, c.paused, FALSE, w.sid, w.active, w.paused)
    <3>1. ~Pausing(f, c.sid) /\ f.type # "START"
      BY DEF Pausing
    <3>2. QED
      BY ZenonT(60), <1>0, <2>1, <3>1, PauseAppend
  <2>3. QED
    BY <2>2 DEF PauseFollows, PauseOnTheWay
<1>8. FramesNumbered'
  BY DEF ProtocolInv, FramesNumbered
<1>9. QED
  BY <1>2, <1>3, <1>4, <1>5, <1>6, <1>7, <1>8 DEF ProtocolInv

\* A frame about the pause of the session the client is in.
LEMMA PauseSend ==
    ASSUME ProtocolInv, c.pipe, c.active, call = "none", call' = "none",
           NEW f \in DownFrames, down' = Append(down, f), Pausing(f, c.sid),
           NEW q \in BOOLEAN, q <=> PauseFlag(f), c' = [c EXCEPT !.paused = q],
           calls' \in Nat, calls' <= MaxCalls, UNCHANGED <<w, up, drawn, accepted, returned>>
    PROVE  ProtocolInv'
<1>0. /\ w \in WorkersTyped /\ drawn \in 0 .. MaxSessions /\ accepted \subseteq 1 .. drawn
      /\ accepted \in SUBSET Nat /\ c.sid \in Nat /\ returned \in Nat \X Nat
      /\ down \in Seq(DownFrames) /\ up \in Seq(UpFrames) /\ c \in Clients
  BY SMTT(30), TypeFacts
<1>1. /\ c' \in Clients /\ c'.pipe = c.pipe /\ c'.sid = c.sid /\ c'.active = c.active
      /\ c'.source = c.source /\ c'.cfg = c.cfg /\ c'.modern = c.modern /\ c'.paused = q
      /\ c'.seen = c.seen
  BY <1>0 DEF Clients
<1>2. ProtocolTyped'
  <2>1. down' \in Seq(DownFrames)
    BY <1>0, AppendFacts
  <2>2. QED
    BY <1>0, <1>1, <2>1, TypesFollow
<1>3. f.type # "START" /\ f.type # "TRANSLATE" /\ f.sid = c.sid
  BY DEF Pausing
<1>4. NoTransport'
  BY <1>1 DEF ProtocolInv, NoTransport
<1>5. SessionsOrdered'
  <2>1. StartsFresh(down', c.sid, accepted)
    <3>1. f.sid <= c.sid /\ c.sid <= c.sid
      BY <1>0, <1>3
    <3>2. QED
      BY <1>0, <1>3, <3>1, StartsAppend DEF ProtocolInv, SessionsOrdered
  <2>2. QED
    BY <1>1, <2>1 DEF ProtocolInv, SessionsOrdered
<1>6. SessionConfirmed'
  BY <1>1 DEF ProtocolInv, SessionConfirmed
<1>7. SettingsFollow'
  <2>1. SettingsOnTheWay(down', c.modern, c.cfg, w.sid, w.set)
    BY <1>0, <1>3, SettingsAppend DEF ProtocolInv, SettingsFollow
  <2>2. QED
    BY <1>1, <2>1 DEF SettingsFollow
<1>8. PauseFollows'
  <2>1. PauseOnTheWay(down, c.sid, c.active, c.paused, FALSE, w.sid, w.active, w.paused)
    BY DEF ProtocolInv, PauseFollows, PauseOnTheWay
  <2>2. PauseOnTheWay(down', c.sid, c.active, q, FALSE, w.sid, w.active, w.paused)
    BY <1>0, <2>1, PauseSaid
  <2>3. QED
    BY <1>1, <2>2 DEF PauseFollows, PauseOnTheWay
<1>9. FramesNumbered'
  BY <1>1 DEF ProtocolInv, FramesNumbered
<1>10. QED
  BY <1>2, <1>4, <1>5, <1>6, <1>7, <1>8, <1>9 DEF ProtocolInv

\* When the client's session is accepted, the worker is in it and has read
\* every START.
LEMMA AcceptedIsRead ==
    ASSUME ProtocolInv, c.pipe, c.sid \in accepted
    PROVE  w.sid = c.sid /\ \A i \in 1 .. Len(down) : down[i].type # "START"
<1>0. down \in Seq(DownFrames) /\ c.sid \in Nat
  BY TypeFacts
<1>1. \A i \in 1 .. Len(down) : down[i].sid \in Nat
  BY <1>0 DEF DownFrames
<1>2. QED
  BY <1>0, <1>1 DEF ProtocolInv, SessionsOrdered, StartsFresh

\* Settings for the session the client is in; an older worker has the only
\* ones it may be asked for already.
LEMMA SettingsSend ==
    ASSUME ProtocolInv, c.pipe, c.active, call = "none", call' = "none", NEW s \in Settings,
           c' = [c EXCEPT !.cfg = s],
           \/ c.modern /\ down' = Append(down, ToWorker("TRANSLATE", c.sid, s))
           \/ ~c.modern /\ s = "off" /\ down' = down,
           calls' \in Nat, calls' <= MaxCalls, UNCHANGED <<w, up, drawn, accepted, returned>>
    PROVE  ProtocolInv'
<1> DEFINE f == ToWorker("TRANSLATE", c.sid, s)
<1>0. /\ w \in WorkersTyped /\ drawn \in 0 .. MaxSessions /\ accepted \subseteq 1 .. drawn
      /\ accepted \in SUBSET Nat /\ c.sid \in Nat /\ returned \in Nat \X Nat
      /\ down \in Seq(DownFrames) /\ up \in Seq(UpFrames) /\ c \in Clients
  BY SMTT(30), TypeFacts
<1>1. /\ c' \in Clients /\ c'.pipe = c.pipe /\ c'.sid = c.sid /\ c'.active = c.active
      /\ c'.source = c.source /\ c'.cfg = s /\ c'.modern = c.modern /\ c'.paused = c.paused
      /\ c'.seen = c.seen
  BY <1>0 DEF Clients
<1>2. f \in DownFrames /\ f.type = "TRANSLATE" /\ f.sid = c.sid /\ f.arg = s
  BY <1>0 DEF ToWorker, DownFrames
<1>3. f.sid <= c.sid /\ c.sid <= c.sid /\ ~Pausing(f, c.sid) /\ f.type # "START"
  BY <1>0, <1>2 DEF Pausing
<1>4. c.modern => w.sid = c.sid /\ \A i \in 1 .. Len(down) : down[i].type # "START"
  BY AcceptedIsRead DEF ProtocolInv, SessionConfirmed
<1> HIDE DEF f
<1>5. ProtocolTyped'
  <2>0. Append(down, f) \in Seq(DownFrames)
    BY <1>0, <1>2, AppendFacts
  <2>1. down' \in Seq(DownFrames)
    BY <1>0, <2>0 DEF f
  <2>2. QED
    BY <1>0, <1>1, <2>1, TypesFollow
<1>6. NoTransport'
  BY <1>1 DEF ProtocolInv, NoTransport
<1>7. SessionsOrdered'
  <2>1. StartsFresh(Append(down, f), c.sid, accepted)
    BY <1>0, <1>2, <1>3, StartsAppend DEF ProtocolInv, SessionsOrdered
  <2>2. StartsFresh(down', c.sid, accepted)
    BY <2>1 DEF f, ProtocolInv, SessionsOrdered
  <2>3. QED
    BY <1>1, <2>2 DEF ProtocolInv, SessionsOrdered
<1>8. SessionConfirmed'
  BY <1>1 DEF ProtocolInv, SessionConfirmed
<1>9. SettingsFollow'
  <2>1. SettingsOnTheWay(down, c.modern, c.cfg, w.sid, w.set)
    BY DEF ProtocolInv, SettingsFollow
  <2>2. CASE c.modern /\ down' = Append(down, f)
    <3>1. SettingsOnTheWay(Append(down, f), c.modern, s, w.sid, w.set)
      BY <1>0, <1>2, <1>4, <2>1, <2>2, SettingsAppend
    <3>2. QED
      BY <1>1, <2>2, <3>1 DEF SettingsFollow
  <2>3. CASE ~c.modern /\ s = "off" /\ down' = down
    <3>1. SettingsOnTheWay(down, c.modern, s, w.sid, w.set)
      BY <2>1, <2>3 DEF SettingsOnTheWay
    <3>2. QED
      BY <1>1, <2>3, <3>1 DEF SettingsFollow
  <2>4. QED
    BY <2>2, <2>3 DEF f
<1>10. PauseFollows'
  <2>1. PauseOnTheWay(down, c.sid, c.active, c.paused, FALSE, w.sid, w.active, w.paused)
    BY DEF ProtocolInv, PauseFollows, PauseOnTheWay
  <2>2. PauseOnTheWay(Append(down, f), c.sid, c.active, c.paused, FALSE, w.sid, w.active, w.paused)
    BY ZenonT(60), <1>0, <1>2, <1>3, <2>1, PauseAppend
  <2>3. PauseOnTheWay(down', c.sid, c.active, c.paused, FALSE, w.sid, w.active, w.paused)
    BY <2>1, <2>2 DEF f
  <2>4. QED
    BY <1>1, <2>3 DEF PauseFollows, PauseOnTheWay
<1>11. FramesNumbered'
  BY <1>1 DEF ProtocolInv, FramesNumbered
<1>12. QED
  BY <1>5, <1>6, <1>7, <1>8, <1>9, <1>10, <1>11 DEF ProtocolInv

\* A START with a newly drawn session id, behind a stream d of older frames.
LEMMA StartSend ==
    ASSUME ProtocolInv, c.pipe, call' \in {"start", "seek"},
           drawn < MaxSessions, drawn' = drawn + 1,
           NEW d \in Seq(DownFrames), StartsFresh(d, c.sid, accepted),
           SettingsOnTheWay(d, c.modern, c.cfg, w.sid, w.set),
           NEW asked \in BOOLEAN, down' = Append(d, ToWorker("START", drawn + 1, asked)),
           c' \in Clients, c'.pipe = c.pipe, c'.sid = drawn + 1, ~c'.active,
           c'.cfg = c.cfg, c'.modern = c.modern, c'.seen = c.seen,
           calls' \in Nat, calls' <= MaxCalls, UNCHANGED <<w, up, accepted, returned>>
    PROVE  ProtocolInv'
<1> DEFINE f == ToWorker("START", drawn + 1, asked)
<1>0. /\ w \in WorkersTyped /\ drawn \in Nat /\ MaxSessions \in Nat /\ accepted \subseteq 1 .. drawn
      /\ accepted \in SUBSET Nat /\ c.sid \in Nat /\ returned \in Nat \X Nat
      /\ up \in Seq(UpFrames)
  BY TypeFacts
<1>1. f \in DownFrames /\ f.type = "START" /\ f.sid = drawn + 1
  BY <1>0 DEF ToWorker, DownFrames
<1>2. c.sid <= drawn /\ w.sid \in accepted \cup {0}
  BY DEF ProtocolInv, SessionsOrdered
<1>3. drawn + 1 \in Nat /\ drawn + 1 \notin accepted /\ w.sid # drawn + 1
  BY <1>0, <1>2
<1>4. \A i \in 1 .. Len(d) : d[i].sid # drawn + 1
  <2>1. \A i \in 1 .. Len(d) : d[i].sid \in Nat /\ d[i].sid <= c.sid
    BY DEF DownFrames, StartsFresh
  <2>2. QED
    BY <1>0, <1>2, <2>1
<1> HIDE DEF f
<1>5. ProtocolTyped'
  <2>1. down' \in Seq(DownFrames)
    BY <1>1, AppendFacts DEF f
  <2>2. drawn' \in 0 .. MaxSessions /\ accepted' \subseteq 1 .. drawn'
    BY <1>0
  <2>3. QED
    BY <1>0, <2>1, <2>2, TypesFollow
<1>6. NoTransport'
  BY DEF ProtocolInv, NoTransport
<1>7. SessionsOrdered'
  <2>1. StartsFresh(Append(d, f), drawn + 1, accepted)
    <3>1. \A a \in accepted : a < drawn + 1
      BY <1>0
    <3>2. /\ drawn + 1 >= 1 /\ c.sid < drawn + 1 /\ c.sid <= drawn + 1
          /\ drawn + 1 <= drawn + 1
      BY <1>0, <1>2
    <3>3. QED
      BY <1>0, <1>1, <1>3, <3>1, <3>2, StartsAppend
  <2>2. c'.sid <= drawn'
    BY <1>0
  <2>3. QED
    BY <1>2, <1>3, <2>1, <2>2 DEF f, SessionsOrdered
<1>8. SessionConfirmed'
  BY DEF ProtocolInv, SessionConfirmed
<1>9. SettingsFollow'
  <2>1. SettingsOnTheWay(Append(d, f), c.modern, c.cfg, w.sid, w.set)
    BY <1>1, SettingsAppend
  <2>2. QED
    BY <2>1 DEF f, SettingsFollow
<1>10. PauseFollows'
  <2>1. PauseOnTheWay(Append(d, f), drawn + 1, FALSE, c'.paused, TRUE, w.sid, w.active, w.paused)
    BY <1>1, <1>3, <1>4, PauseStart
  <2>2. QED
    BY <2>1 DEF f, PauseFollows, PauseOnTheWay
<1>11. FramesNumbered'
  BY DEF ProtocolInv, FramesNumbered
<1>12. QED
  BY <1>5, <1>6, <1>7, <1>8, <1>9, <1>10, <1>11 DEF ProtocolInv

\* The START of a session, and what the client then does without an answer.
LEMMA StartSessionKeeps ==
    ASSUME ProtocolInv, NEW asked \in BOOLEAN, StartSession(asked)
    PROVE  ProtocolInv'
<1>0. /\ c \in Clients /\ calls \in Nat /\ MaxCalls \in Nat /\ drawn \in Nat /\ MaxSessions \in Nat
      /\ down \in Seq(DownFrames)
  BY TypeFacts
<1>1. /\ c.pipe /\ call = "none" /\ drawn < MaxSessions /\ drawn' = drawn + 1
      /\ calls < MaxCalls /\ calls' = calls + 1 /\ UNCHANGED <<accepted, returned>>
  BY DEF StartSession, Idle, Sends, CallKeeps
<1>2. calls' \in Nat /\ calls' <= MaxCalls /\ drawn' \in 0 .. MaxSessions /\ drawn <= drawn'
  BY <1>0, <1>1
<1>3. CASE Closed(Dropped)
  BY <1>1, <1>2, <1>3, ClosedKeeps
<1>4. CASE /\ down' = down \o <<ToWorker("START", drawn + 1, asked)>>
           /\ c' = Starting(asked) /\ call' = "start" /\ UNCHANGED <<w, up>>
  <2>1. /\ c' \in Clients /\ c'.pipe = c.pipe /\ c'.sid = drawn + 1 /\ ~c'.active
        /\ c'.cfg = c.cfg /\ c'.modern = c.modern /\ c'.seen = c.seen
    <3>1. drawn + 1 \in 0 .. MaxSessions
      BY <1>0, <1>1
    <3>2. QED
      BY <1>0, <1>4, <3>1 DEF Starting, Clients
  <2>2. ToWorker("START", drawn + 1, asked) \in DownFrames
    BY <1>0 DEF ToWorker, DownFrames
  <2>3. down' = Append(down, ToWorker("START", drawn + 1, asked))
    BY <1>0, <1>4, <2>2, AppendFacts
  <2>4. /\ StartsFresh(down, c.sid, accepted)
        /\ SettingsOnTheWay(down, c.modern, c.cfg, w.sid, w.set)
    BY <1>1 DEF ProtocolInv, SessionsOrdered, SettingsFollow
  <2>5. QED
    BY <1>0, <1>1, <1>2, <1>4, <2>1, <2>3, <2>4, StartSend
<1>5. QED
  BY <1>3, <1>4 DEF StartSession, Sends

\* A seek in source mode: the old session is stopped, a new one begun.
LEMMA SeekSourceKeeps ==
    ASSUME ProtocolInv, NEW paused \in BOOLEAN, SeekSource(paused)
    PROVE  ProtocolInv'
<1> DEFINE f == ToWorker("STOP", c.sid, 0)
           g == ToWorker("START", drawn + 1, TRUE)
           d == Append(down, f)
<1>0. /\ c \in Clients /\ calls \in Nat /\ MaxCalls \in Nat /\ drawn \in Nat /\ MaxSessions \in Nat
      /\ down \in Seq(DownFrames) /\ c.sid \in Nat /\ accepted \in SUBSET Nat
  BY TypeFacts
<1>1. /\ c.pipe /\ call = "none" /\ drawn < MaxSessions /\ drawn' = drawn + 1
      /\ calls < MaxCalls /\ calls' = calls + 1 /\ UNCHANGED <<accepted, returned>>
  BY DEF SeekSource, InSession, Idle, Sends, CallKeeps
<1>2. calls' \in Nat /\ calls' <= MaxCalls /\ drawn' \in 0 .. MaxSessions /\ drawn <= drawn'
  BY <1>0, <1>1
<1>3. CASE Closed(Dropped)
  BY <1>1, <1>2, <1>3, ClosedKeeps
<1>4. CASE /\ down' = down \o <<f, g>>
           /\ c' = [Starting(TRUE) EXCEPT !.paused = paused] /\ call' = "seek" /\ UNCHANGED <<w, up>>
  <2>1. /\ c' \in Clients /\ c'.pipe = c.pipe /\ c'.sid = drawn + 1 /\ ~c'.active
        /\ c'.cfg = c.cfg /\ c'.modern = c.modern /\ c'.seen = c.seen
    <3>1. drawn + 1 \in 0 .. MaxSessions
      BY <1>0, <1>1
    <3>2. QED
      BY <1>0, <1>4, <3>1 DEF Starting, Clients
  <2>2. /\ f \in DownFrames /\ g \in DownFrames
        /\ f.type = "STOP" /\ f.sid = c.sid
    BY <1>0 DEF ToWorker, DownFrames
  <2>3. /\ StartsFresh(down, c.sid, accepted)
        /\ SettingsOnTheWay(down, c.modern, c.cfg, w.sid, w.set)
    BY <1>1 DEF ProtocolInv, SessionsOrdered, SettingsFollow
  <2>4. c.sid <= c.sid
    BY <1>0
  <2> HIDE DEF f, g
  <2>5. d \in Seq(DownFrames) /\ down' = Append(d, g)
    BY <1>0, <1>4, <2>2
  <2>6. StartsFresh(d, c.sid, accepted)
    BY <1>0, <2>2, <2>3, <2>4, StartsAppend
  <2>7. SettingsOnTheWay(d, c.modern, c.cfg, w.sid, w.set)
    BY <1>0, <2>2, <2>3, SettingsAppend
  <2> HIDE DEF d
  <2>8. QED
    BY <1>0, <1>1, <1>2, <1>4, <2>1, <2>5, <2>6, <2>7, StartSend DEF g
<1>5. QED
  BY <1>3, <1>4 DEF SeekSource, Sends

\* The calls with one frame in a session, and MODEL_CTRL and SHUTDOWN.
LEMMA CallsKeep ==
    ASSUME ProtocolInv,
           \/ \E paused \in BOOLEAN : SendPosition(paused) \/ PauseOrResume(paused)
           \/ SendAudio \/ StopSession \/ SendModelCtrl \/ Shutdown
           \/ \E s \in Settings : SendTranslate(s)
    PROVE  ProtocolInv'
<1>0. /\ c \in Clients /\ calls \in Nat /\ MaxCalls \in Nat /\ drawn \in 0 .. MaxSessions
      /\ drawn <= drawn /\ down \in Seq(DownFrames) /\ c.sid \in Nat /\ calls <= MaxCalls
  BY TypeFacts
<1>1. c.pipe /\ call = "none" /\ UNCHANGED <<drawn, accepted, returned>>
  BY DEF SendPosition, PauseOrResume, SendAudio, StopSession, SendModelCtrl, Shutdown,
         SendTranslate, InSession, Idle, CallKeeps
<1>2. ASSUME NEW frames, NEW client, NEW waiting, Sends(frames, client, waiting)
      PROVE  /\ calls' \in Nat /\ calls' <= MaxCalls
             /\ \/ ProtocolInv'
                \/ down' = down \o frames /\ c' = client /\ call' = waiting /\ UNCHANGED <<w, up>>
  <2>1. calls' \in Nat /\ calls' <= MaxCalls
    BY <1>0, <1>2 DEF Sends
  <2>2. CASE Closed(Dropped)
    BY <1>0, <1>1, <2>1, <2>2, ClosedKeeps
  <2>3. QED
    BY <1>2, <2>1, <2>2 DEF Sends
<1>3. \A f \in DownFrames : down \o <<f>> = Append(down, f)
  BY <1>0, AppendFacts
<1>4. c.sid <= c.sid /\ 0 <= c.sid
  BY <1>0
<1>5. ASSUME NEW paused \in BOOLEAN, SendPosition(paused) PROVE ProtocolInv'
  <2> DEFINE f == ToWorker("POSITION", c.sid, paused)
  <2>1. c.active /\ Sends(<<f>>, [c EXCEPT !.paused = paused], "none")
    BY <1>5 DEF SendPosition, InSession
  <2>2. f \in DownFrames /\ Pausing(f, c.sid) /\ (paused <=> PauseFlag(f))
    BY <1>0 DEF ToWorker, DownFrames, Pausing, PauseFlag
  <2> HIDE DEF f
  <2>3. QED
    BY <1>1, <1>2, <1>3, <2>1, <2>2, PauseSend
<1>6. ASSUME NEW paused \in BOOLEAN, PauseOrResume(paused) PROVE ProtocolInv'
  <2> DEFINE f == ToWorker(IF paused THEN "PAUSE" ELSE "RESUME", c.sid, 0)
  <2>1. c.active /\ Sends(<<f>>, [c EXCEPT !.paused = paused], "none")
    BY <1>6 DEF PauseOrResume, InSession
  <2>2. f \in DownFrames /\ Pausing(f, c.sid) /\ (paused <=> PauseFlag(f))
    BY <1>0 DEF ToWorker, DownFrames, Pausing, PauseFlag
  <2> HIDE DEF f
  <2>3. QED
    BY <1>1, <1>2, <1>3, <2>1, <2>2, PauseSend
<1>7. CASE SendAudio
  <2> DEFINE f == ToWorker("AUDIO", c.sid, 0)
  <2>1. Sends(<<f>>, c, "none")
    BY <1>7 DEF SendAudio
  <2>2. f \in DownFrames /\ f.type = "AUDIO" /\ f.sid <= c.sid
    BY <1>0, <1>4 DEF ToWorker, DownFrames
  <2> HIDE DEF f
  <2>3. QED
    <3>1. \/ ProtocolInv'
          \/ down' = Append(down, f) /\ c' = c /\ call' = "none" /\ UNCHANGED <<w, up>>
      BY <1>2, <1>3, <2>1, <2>2
    <3>2. calls' \in Nat /\ calls' <= MaxCalls
      BY <1>2, <2>1
    <3>3. QED
      BY <1>0, <1>1, <2>2, <3>1, <3>2, PlainSend
<1>8. CASE StopSession
  <2> DEFINE f == ToWorker("STOP", c.sid, 0)
             client == [c EXCEPT !.active = FALSE]
  <2>1. Sends(<<f>>, client, "none")
    BY <1>8 DEF StopSession
  <2>2. f \in DownFrames /\ f.type = "STOP" /\ f.sid <= c.sid
    BY <1>0, <1>4 DEF ToWorker, DownFrames
  <2>3. /\ client \in Clients /\ client.pipe = c.pipe /\ client.sid = c.sid /\ ~client.active
        /\ client.source = c.source /\ client.cfg = c.cfg /\ client.modern = c.modern
        /\ client.paused = c.paused /\ client.seen = c.seen
    BY <1>0 DEF Clients
  <2> HIDE DEF f, client
  <2>4. QED
    BY <1>0, <1>1, <1>2, <1>3, <2>1, <2>2, <2>3, PlainSend
<1>9. CASE SendModelCtrl
  <2> DEFINE f == ToWorker("MODEL_CTRL", 0, 0)
  <2>1. Sends(<<f>>, c, "none")
    BY <1>9 DEF SendModelCtrl
  <2>2. f \in DownFrames /\ f.type = "MODEL_CTRL" /\ f.sid <= c.sid
    BY <1>0, <1>4 DEF ToWorker, DownFrames
  <2> HIDE DEF f
  <2>3. QED
    <3>1. \/ ProtocolInv'
          \/ down' = Append(down, f) /\ c' = c /\ call' = "none" /\ UNCHANGED <<w, up>>
      BY <1>2, <1>3, <2>1, <2>2
    <3>2. calls' \in Nat /\ calls' <= MaxCalls
      BY <1>2, <2>1
    <3>3. QED
      BY <1>0, <1>1, <2>2, <3>1, <3>2, PlainSend
<1>10. CASE Shutdown
  <2> DEFINE f == ToWorker("SHUTDOWN", 0, 0)
  <2>1. /\ down' = Append(down, f) \/ down' = down
        /\ calls' = calls + 1 /\ calls < MaxCalls /\ UNCHANGED <<c, call, w, up>>
    BY <1>10 DEF Shutdown
  <2>2. f \in DownFrames /\ f.type = "SHUTDOWN" /\ f.sid <= c.sid
    BY <1>0, <1>4 DEF ToWorker, DownFrames
  <2>3. calls' \in Nat /\ calls' <= MaxCalls
    BY <1>0, <2>1
  <2> HIDE DEF f
  <2>4. CASE down' = Append(down, f)
    BY <1>0, <1>1, <2>1, <2>2, <2>3, <2>4, PlainSend
  <2>5. CASE down' = down
    <3>1. ProtocolTyped' /\ NoTransport' /\ SessionsOrdered' /\ SessionConfirmed'
      BY <1>1, <2>1, <2>3, <2>5
      DEF ProtocolInv, ProtocolTyped, ClientTypeOK, NoTransport, SessionsOrdered, SessionConfirmed
    <3>2. SettingsFollow' /\ PauseFollows' /\ FramesNumbered'
      BY <1>1, <2>1, <2>5 DEF ProtocolInv, SettingsFollow, PauseFollows, FramesNumbered
    <3>3. QED
      BY <3>1, <3>2 DEF ProtocolInv
  <2>6. QED
    BY <2>1, <2>4, <2>5
<1>11. ASSUME NEW s \in Settings, SendTranslate(s) PROVE ProtocolInv'
  <2> DEFINE f == ToWorker("TRANSLATE", c.sid, s)
  <2>1. /\ c.active
        /\ \/ c.modern /\ Sends(<<f>>, [c EXCEPT !.cfg = s], "none")
           \/ ~c.modern /\ s = "off" /\ c' = [c EXCEPT !.cfg = s]
              /\ UNCHANGED <<w, down, up, call, calls>>
    BY <1>11 DEF SendTranslate, InSession
  <2>2. f \in DownFrames
    BY <1>0 DEF ToWorker, DownFrames
  <2> HIDE DEF f
  <2>3. CASE c.modern /\ Sends(<<f>>, [c EXCEPT !.cfg = s], "none")
    <3>1. \/ ProtocolInv'
          \/ down' = Append(down, f) /\ c' = [c EXCEPT !.cfg = s] /\ call' = "none" /\ UNCHANGED <<w, up>>
      BY <1>2, <1>3, <2>2, <2>3
    <3>2. calls' \in Nat /\ calls' <= MaxCalls
      BY <1>2, <2>3
    <3>3. QED
      BY <1>1, <2>1, <2>3, <3>1, <3>2, SettingsSend DEF f
  <2>4. CASE ~c.modern /\ s = "off" /\ c' = [c EXCEPT !.cfg = s]
             /\ UNCHANGED <<w, down, up, call, calls>>
    <3>1. call' = "none" /\ calls' \in Nat /\ calls' <= MaxCalls
      BY <1>0, <1>1, <2>4
    <3>2. QED
      BY <1>1, <2>1, <2>4, <3>1, SettingsSend
  <2>5. QED
    BY <2>1, <2>3, <2>4
<1>12. QED
  BY <1>5, <1>6, <1>7, <1>8, <1>9, <1>10, <1>11

\* A new worker and a client that knows nothing yet.
LEMMA LaunchKeeps ==
    ASSUME ProtocolInv, Launch
    PROVE  ProtocolInv'
<1> DEFINE f == ToWorker("HELLO", 0, 0)
<1> USE ClientAssumption
<1>0. /\ calls \in Nat /\ calls <= MaxCalls /\ drawn \in 0 .. MaxSessions /\ MaxSessions \in Nat
      /\ accepted \subseteq 1 .. drawn
  BY TypeFacts
<1>1. PICK modern \in BOOLEAN :
        /\ w' = [NoWorker EXCEPT !.alive = TRUE]
        /\ c' = [NoClient EXCEPT !.pipe = TRUE, !.modern = modern]
  BY DEF Launch
<1>2. /\ down' = <<f>> /\ up' = << >> /\ call' = "hello" /\ returned' = <<0, 1>>
      /\ UNCHANGED <<drawn, calls, accepted>>
  BY DEF Launch
<1>3. /\ c' \in Clients /\ c'.pipe /\ ~c'.active /\ c'.sid = 0 /\ c'.cfg = "none"
  <2>1. /\ NoClient \in Clients /\ ~NoClient.active /\ NoClient.sid = 0 /\ NoClient.cfg = "none"
    BY DEF NoClient, Clients
  <2>2. QED
    BY <1>1, <2>1 DEF Clients
<1>4. /\ w' \in WorkersTyped /\ w'.sid = 0 /\ w'.set = "off" /\ w'.seq = 1
  <2>1. /\ NoWorker \in WorkersTyped /\ NoWorker.sid = 0 /\ NoWorker.set = "off" /\ NoWorker.seq = 1
    BY DEF NoWorker, WorkersTyped
  <2>2. QED
    BY <1>1, <2>1 DEF WorkersTyped
<1>5. f \in DownFrames /\ f.type = "HELLO" /\ f.sid = 0
  BY DEF ToWorker, DownFrames
<1> HIDE DEF f
<1>6. /\ down' \in Seq(DownFrames) /\ Len(down') = 1 /\ down'[1] = f
      /\ up' \in Seq(UpFrames) /\ Len(up') = 0 /\ returned' \in Nat \X Nat
      /\ returned'[1] = 0 /\ returned'[2] = 1
  BY <1>2, <1>5
<1>7. \A i \in 1 .. Len(down') : down'[i] = f
  BY <1>6
<1>8. ProtocolTyped'
  BY <1>0, <1>2, <1>3, <1>4, <1>6, TypesFollow
<1>9. NoTransport'
  BY <1>3 DEF NoTransport
<1>10. SessionsOrdered'
  <2>1. StartsFresh(down', c'.sid, accepted')
    BY <1>3, <1>5, <1>7 DEF StartsFresh
  <2>2. c'.sid <= drawn' /\ c'.sid \notin accepted'
    BY <1>0, <1>2, <1>3
  <2>3. QED
    BY <1>4, <2>1, <2>2 DEF SessionsOrdered
<1>11. SessionConfirmed'
  BY <1>3, <1>6 DEF SessionConfirmed, StartedsTrue
<1>12. SettingsFollow'
  BY <1>3, <1>4, <1>5, <1>7 DEF SettingsFollow, SettingsOnTheWay
<1>13. PauseFollows'
  BY <1>2, <1>3, <1>5, <1>7 DEF PauseFollows, PauseOnTheWay, Pausing
<1>14. FramesNumbered'
  BY <1>4, <1>6 DEF FramesNumbered
<1>15. QED
  BY <1>8, <1>9, <1>10, <1>11, <1>12, <1>13, <1>14 DEF ProtocolInv

\* STARTED: the client confirms the session it asked for, and after a seek
\* sends it the settings and the pause; anything else costs the transport.
LEMMA StartedKeeps ==
    ASSUME ProtocolInv, Started
    PROVE  ProtocolInv'
<1> DEFINE f == Head(up)
           n == f.seq
           t == ToWorker("TRANSLATE", c.sid, c.cfg)
           p == ToWorker("POSITION", c.sid, c.paused)
           q == call = "seek" /\ c.paused
<1>0. /\ c \in Clients /\ w \in WorkersTyped /\ calls \in Nat /\ calls <= MaxCalls
      /\ drawn \in 0 .. MaxSessions /\ drawn <= drawn /\ accepted \subseteq 1 .. drawn
      /\ accepted \in SUBSET Nat /\ c.sid \in Nat /\ c.seen \in Nat /\ returned \in Nat \X Nat
      /\ down \in Seq(DownFrames) /\ up \in Seq(UpFrames) /\ MaxSessions \in Nat
  BY TypeFacts
<1>1. /\ call \in {"start", "seek"} /\ up # << >> /\ f.type = "STARTED"
      /\ UNCHANGED <<drawn, calls, accepted, returned>>
  BY DEF Started, WaitKeeps, CallKeeps
<1>2. CASE Closed(Dropped)
  BY <1>0, <1>1, <1>2, ClosedKeeps
<1>3. CASE /\ Confirms(f)
           /\ c' = [c EXCEPT !.seen = n, !.active = TRUE, !.source = SourceOf(f),
                             !.url = c.asked, !.paused = (call = "seek" /\ @)]
           /\ call' = "none" /\ up' = Tail(up) /\ w' = w
           /\ down' = IF call = "seek" THEN down \o AfterSeek ELSE down
  <2>1. /\ f = up[1] /\ f \in UpFrames /\ 1 \in 1 .. Len(up) /\ up' \in Seq(UpFrames)
        /\ Len(up) \in Nat /\ Len(up') = Len(up) - 1
        /\ \A i \in 1 .. Len(up') : up'[i] = up[i + 1] /\ i + 1 \in 1 .. Len(up)
    BY <1>0, <1>1, <1>3, TailFacts
  <2>2. n \in Nat /\ f.arg \in BOOLEAN /\ n > c.seen /\ (c.modern => f.sid = c.sid)
    BY <1>1, <1>3, <2>1 DEF UpFrames, Confirms
  <2>3. f.sid \in accepted /\ (w.active /\ f.sid = w.sid => (f.arg <=> w.source))
    BY <1>1, <2>1 DEF ProtocolInv, SessionConfirmed, StartedsTrue
  <2>4. c.pipe /\ ~c.active
    BY <1>1 DEF ProtocolInv, NoTransport
  <2>5. c.modern => w.sid = c.sid /\ \A i \in 1 .. Len(down) : down[i].type # "START"
    BY <2>2, <2>3, <2>4, AcceptedIsRead
  <2>6. q \in BOOLEAN
    BY <1>0 DEF Clients
  <2>7. c.paused \in BOOLEAN /\ c.cfg \in Settings \cup {"none"}
    BY <1>0 DEF Clients
  <2> HIDE DEF f, n
  <2>8. /\ c' \in Clients /\ c'.pipe = c.pipe /\ c'.sid = c.sid /\ c'.active
        /\ c'.source = f.arg /\ c'.cfg = c.cfg /\ c'.modern = c.modern /\ c'.seen = n
    BY ZenonT(60), <1>0, <1>3, <2>2, <2>6 DEF Clients, SourceOf
  <2>9. c'.paused <=> q
    BY <1>0, <1>3, <2>2, <2>6 DEF Clients, SourceOf
  <2>10. p \in DownFrames /\ Pausing(p, c.sid) /\ (c.paused <=> PauseFlag(p))
         /\ p.type = "POSITION" /\ p.sid = c.sid
    BY <1>0, <2>7 DEF ToWorker, DownFrames, Pausing, PauseFlag
  <2>11. c.cfg # "none" => t \in DownFrames
    BY <1>0, <2>7 DEF ToWorker, DownFrames
  <2>12. t.type = "TRANSLATE" /\ t.sid = c.sid /\ t.arg = c.cfg /\ ~Pausing(t, c.sid)
    BY DEF ToWorker, Pausing
  <2> HIDE DEF p, t, q
  <2> DEFINE e == IF c.cfg # "none" /\ c.modern THEN Append(down, t) ELSE down
  <2>13. e \in Seq(DownFrames)
    BY <1>0, <2>11
  <2>14. call = "seek" => down' = Append(e, p)
    <3>1. CASE c.cfg # "none" /\ c.modern
      <4>1. AfterSeek = <<t>> \o <<p>>
        BY <3>1 DEF AfterSeek, t, p
      <4>2. down \o (<<t>> \o <<p>>) = Append(Append(down, t), p)
        BY <1>0, <2>10, <2>11, <3>1
      <4>3. QED
        BY <1>3, <3>1, <4>1, <4>2
    <3>2. CASE ~(c.cfg # "none" /\ c.modern)
      <4>1. AfterSeek = << >> \o <<p>>
        BY <3>2 DEF AfterSeek, p
      <4>2. down \o (<< >> \o <<p>>) = Append(down, p)
        BY <1>0, <2>10
      <4>3. QED
        BY <1>3, <3>2, <4>1, <4>2
    <3>3. QED
      BY <3>1, <3>2
  <2>15. /\ StartsFresh(e, c.sid, accepted)
         /\ SettingsOnTheWay(e, c.modern, c.cfg, w.sid, w.set)
         /\ PauseOnTheWay(e, c.sid, FALSE, c.paused, TRUE, w.sid, w.active, w.paused)
    <3>1. /\ StartsFresh(down, c.sid, accepted)
          /\ SettingsOnTheWay(down, c.modern, c.cfg, w.sid, w.set)
          /\ PauseOnTheWay(down, c.sid, FALSE, c.paused, TRUE, w.sid, w.active, w.paused)
      BY <1>1, <2>4 DEF ProtocolInv, SessionsOrdered, SettingsFollow, PauseFollows, PauseOnTheWay
    <3>2. CASE c.cfg # "none" /\ c.modern
      <4>0. c.sid <= c.sid
        BY <1>0
      <4>1. StartsFresh(Append(down, t), c.sid, accepted)
        BY <1>0, <2>11, <2>12, <3>1, <3>2, <4>0, StartsAppend
      <4>2. SettingsOnTheWay(Append(down, t), c.modern, c.cfg, w.sid, w.set)
        BY ZenonT(60), <1>0, <2>5, <2>11, <2>12, <3>1, <3>2, SettingsAppend
      <4>3. PauseOnTheWay(Append(down, t), c.sid, FALSE, c.paused, TRUE, w.sid, w.active, w.paused)
        BY <1>0, <2>11, <2>12, <3>1, <3>2, PauseAppend
      <4>4. QED
        BY <3>2, <4>1, <4>2, <4>3
    <3>3. CASE ~(c.cfg # "none" /\ c.modern)
      BY <3>1, <3>3
    <3>4. QED
      BY <3>2, <3>3
  <2> HIDE DEF e
  <2>16. /\ down' \in Seq(DownFrames) /\ StartsFresh(down', c.sid, accepted)
         /\ SettingsOnTheWay(down', c.modern, c.cfg, w.sid, w.set)
         /\ PauseOnTheWay(down', c.sid, TRUE, q, FALSE, w.sid, w.active, w.paused)
    <3>1. CASE call = "seek"
      <4>0. c.sid <= c.sid
        BY <1>0
      <4>1. Append(e, p) \in Seq(DownFrames)
        BY <2>10, <2>13, AppendFacts
      <4>2. StartsFresh(Append(e, p), c.sid, accepted)
        BY <1>0, <2>10, <2>13, <2>15, <4>0, StartsAppend
      <4>3. SettingsOnTheWay(Append(e, p), c.modern, c.cfg, w.sid, w.set)
        BY <2>10, <2>13, <2>15, SettingsAppend
      <4>4. q <=> PauseFlag(p)
        BY <2>10, <3>1 DEF q
      <4>5. PauseOnTheWay(Append(e, p), c.sid, TRUE, q, FALSE, w.sid, w.active, w.paused)
        BY <2>10, <2>13, <2>15, <4>4, PauseSaid
      <4>6. QED
        BY <2>14, <3>1, <4>1, <4>2, <4>3, <4>5
    <3>2. CASE call = "start"
      <4>1. down' = down /\ (q <=> FALSE)
        BY <1>3, <3>2 DEF q
      <4>2. PauseOnTheWay(down, c.sid, FALSE, c.paused, TRUE, w.sid, w.active, w.paused)
        BY <1>1, <2>4 DEF ProtocolInv, PauseFollows, PauseOnTheWay
      <4>3. PauseOnTheWay(down, c.sid, TRUE, FALSE, FALSE, w.sid, w.active, w.paused)
        BY <1>0, <4>2, PauseConfirmed
      <4>4. PauseOnTheWay(down, c.sid, TRUE, q, FALSE, w.sid, w.active, w.paused)
        BY <4>1, <4>3 DEF PauseOnTheWay
      <4>5. QED
        BY <1>0, <2>4, <4>1, <4>4 DEF ProtocolInv, SessionsOrdered, SettingsFollow
    <3>3. QED
      BY <1>1, <3>1, <3>2
  <2>17. ProtocolTyped'
    BY <1>0, <1>1, <1>3, <2>1, <2>8, <2>16, TypesFollow
  <2>18. NoTransport'
    BY <1>3, <2>4, <2>8 DEF NoTransport
  <2>19. SessionsOrdered'
    BY <1>1, <1>3, <2>8, <2>16 DEF ProtocolInv, SessionsOrdered
  <2>20. SessionConfirmed'
    <3>1. StartedsTrue(up', accepted, w.sid, w.active, w.source)
      BY <1>0, <1>1, <1>3, StartedsTail DEF ProtocolInv, SessionConfirmed
    <3>2. c.modern => c.sid \in accepted /\ (w.active => (f.arg <=> w.source))
      BY <2>2, <2>3, <2>5
    <3>3. QED
      BY <1>1, <1>3, <2>8, <3>1, <3>2 DEF SessionConfirmed
  <2>21. SettingsFollow'
    BY <1>3, <2>8, <2>16 DEF SettingsFollow
  <2>22. PauseFollows'
    BY ZenonT(60), <1>3, <2>8, <2>9, <2>16 DEF PauseFollows, PauseOnTheWay
  <2>23. FramesNumbered'
    <3>1. returned[2] <= c.seen \/ returned[2] = 1
      BY <2>4 DEF ProtocolInv, FramesNumbered
    <3>2. returned[2] <= n \/ returned[2] = 1
      BY <1>0, <2>2, <3>1
    <3>3. QED
      BY <1>1, <1>3, <2>1, <2>8, <3>2 DEF ProtocolInv, FramesNumbered
  <2>24. QED
    BY <2>17, <2>18, <2>19, <2>20, <2>21, <2>22, <2>23 DEF ProtocolInv
<1>4. QED
  BY <1>2, <1>3 DEF Started

-----------------------------------------------------------------------------
(* The worker.                                                              *)

\* A frame of the worker, numbered next.
LEMMA EmitsOne ==
    ASSUME NEW worker \in WorkersTyped, up \in Seq(UpFrames), w.seq \in Nat, NEW t, NEW s, NEW a,
           Emits(worker, << <<t, s, a>> >>), Frame(t, s, w.seq + 1, a) \in UpFrames
    PROVE  /\ up' = Append(up, Frame(t, s, w.seq + 1, a))
           /\ w' = [worker EXCEPT !.seq = w.seq + 1]
<1> DEFINE types == << <<t, s, a>> >>
           more == [i \in DOMAIN types |-> Frame(types[i][1], types[i][2], w.seq + i, types[i][3])]
           f == Frame(t, s, w.seq + 1, a)
<1>1. DOMAIN types = 1 .. 1 /\ Len(types) = 1 /\ types[1] = <<t, s, a>>
  OBVIOUS
<1>2. more = <<f>>
  <2>1. \A i \in 1 .. 1 : i = 1
    OBVIOUS
  <2>2. Frame(types[1][1], types[1][2], w.seq + 1, types[1][3]) = f
    BY <1>1
  <2>3. more = [i \in 1 .. 1 |-> f]
    BY <1>1, <2>1, <2>2
  <2>4. QED
    BY <2>3
<1>3. up' = up \o <<f>> /\ w' = [worker EXCEPT !.seq = w.seq + Len(types)]
  BY <1>2 DEF Emits
<1> HIDE DEF f
<1>4. up \o <<f>> = Append(up, f)
  BY AppendFacts DEF f
<1>5. QED
  BY <1>1, <1>3, <1>4 DEF f

\* Two frames of the worker.
LEMMA EmitsTwo ==
    ASSUME NEW worker \in WorkersTyped, up \in Seq(UpFrames), w.seq \in Nat,
           NEW t1, NEW s1, NEW a1, NEW t2, NEW s2, NEW a2,
           Emits(worker, << <<t1, s1, a1>>, <<t2, s2, a2>> >>),
           Frame(t1, s1, w.seq + 1, a1) \in UpFrames, Frame(t2, s2, w.seq + 2, a2) \in UpFrames
    PROVE  /\ up' = Append(Append(up, Frame(t1, s1, w.seq + 1, a1)), Frame(t2, s2, w.seq + 2, a2))
           /\ w' = [worker EXCEPT !.seq = w.seq + 2]
<1> DEFINE types == << <<t1, s1, a1>>, <<t2, s2, a2>> >>
           more == [i \in DOMAIN types |-> Frame(types[i][1], types[i][2], w.seq + i, types[i][3])]
           f == Frame(t1, s1, w.seq + 1, a1)
           g == Frame(t2, s2, w.seq + 2, a2)
<1>1. DOMAIN types = 1 .. 2 /\ Len(types) = 2
      /\ types[1] = <<t1, s1, a1>> /\ types[2] = <<t2, s2, a2>>
  OBVIOUS
<1>2. more = <<f, g>>
  <2>1. \A i \in 1 .. 2 : i = 1 \/ i = 2
    OBVIOUS
  <2>2. /\ Frame(types[1][1], types[1][2], w.seq + 1, types[1][3]) = f
        /\ Frame(types[2][1], types[2][2], w.seq + 2, types[2][3]) = g
    BY <1>1
  <2>3. more = [i \in 1 .. 2 |-> IF i = 1 THEN f ELSE g]
    BY <1>1, <2>1, <2>2
  <2> HIDE DEF f, g, more
  <2>4. QED
    BY <2>1, <2>3
<1>3. up' = up \o <<f, g>> /\ w' = [worker EXCEPT !.seq = w.seq + Len(types)]
  BY <1>2 DEF Emits
<1>4. f \in UpFrames /\ g \in UpFrames
  OBVIOUS
<1> HIDE DEF f, g
<1>5. up \o <<f, g>> = Append(Append(up, f), g)
  BY <1>4
<1>6. QED
  BY <1>1, <1>3, <1>5 DEF f, g

\* Three frames of the worker.
LEMMA EmitsThree ==
    ASSUME NEW worker \in WorkersTyped, up \in Seq(UpFrames), w.seq \in Nat,
           NEW t1, NEW s1, NEW a1, NEW t2, NEW s2, NEW a2, NEW t3, NEW s3, NEW a3,
           Emits(worker, << <<t1, s1, a1>>, <<t2, s2, a2>>, <<t3, s3, a3>> >>),
           Frame(t1, s1, w.seq + 1, a1) \in UpFrames, Frame(t2, s2, w.seq + 2, a2) \in UpFrames,
           Frame(t3, s3, w.seq + 3, a3) \in UpFrames
    PROVE  /\ up' = Append(Append(Append(up, Frame(t1, s1, w.seq + 1, a1)),
                                  Frame(t2, s2, w.seq + 2, a2)), Frame(t3, s3, w.seq + 3, a3))
           /\ w' = [worker EXCEPT !.seq = w.seq + 3]
<1> DEFINE types == << <<t1, s1, a1>>, <<t2, s2, a2>>, <<t3, s3, a3>> >>
           more == [i \in DOMAIN types |-> Frame(types[i][1], types[i][2], w.seq + i, types[i][3])]
           f == Frame(t1, s1, w.seq + 1, a1)
           g == Frame(t2, s2, w.seq + 2, a2)
           h == Frame(t3, s3, w.seq + 3, a3)
<1>1. DOMAIN types = 1 .. 3 /\ Len(types) = 3
      /\ types[1] = <<t1, s1, a1>> /\ types[2] = <<t2, s2, a2>> /\ types[3] = <<t3, s3, a3>>
  OBVIOUS
<1>2. more = <<f, g, h>>
  <2>1. \A i \in 1 .. 3 : i = 1 \/ i = 2 \/ i = 3
    OBVIOUS
  <2>2. /\ Frame(types[1][1], types[1][2], w.seq + 1, types[1][3]) = f
        /\ Frame(types[2][1], types[2][2], w.seq + 2, types[2][3]) = g
        /\ Frame(types[3][1], types[3][2], w.seq + 3, types[3][3]) = h
    BY <1>1
  <2>3. more = [i \in 1 .. 3 |-> IF i = 1 THEN f ELSE IF i = 2 THEN g ELSE h]
    BY <1>1, <2>1, <2>2
  <2> HIDE DEF f, g, h, more
  <2>4. QED
    BY <2>1, <2>3
<1>3. up' = up \o <<f, g, h>> /\ w' = [worker EXCEPT !.seq = w.seq + Len(types)]
  BY <1>2 DEF Emits
<1>4. f \in UpFrames /\ g \in UpFrames /\ h \in UpFrames
  OBVIOUS
<1> HIDE DEF f, g, h
<1>5. up \o <<f, g, h>> = Append(Append(Append(up, f), g), h)
  BY SMTT(30), <1>4
<1>6. QED
  BY <1>1, <1>3, <1>5 DEF f, g, h

\* What is under way to the client: the STARTEDs are true of the worker, and
\* the frames are numbered from 2.
StreamUp(u, acc, ws, wa, source) ==
    /\ u \in Seq(UpFrames)
    /\ StartedsTrue(u, acc, ws, wa, source)
    /\ \A i \in 1 .. Len(u) : u[i].seq >= 2

\* One more frame.
LEMMA StreamAppend ==
    ASSUME NEW u, NEW acc, NEW ws, NEW wa, NEW source, StreamUp(u, acc, ws, wa, source),
           NEW f \in UpFrames, f.seq >= 2,
           f.type = "STARTED" => f.sid \in acc /\ (f.sid = ws => (f.arg <=> source))
    PROVE  StreamUp(Append(u, f), acc, ws, wa, source)
<1>1. u \in Seq(UpFrames) /\ \A i \in 1 .. Len(u) : u[i].seq >= 2
  BY DEF StreamUp
<1>2. StartedsTrue(Append(u, f), acc, ws, wa, source)
  BY <1>1, StartedsAppend DEF StreamUp
<1>3. \A i \in 1 .. Len(Append(u, f)) : Append(u, f)[i].seq >= 2
  <2>1. /\ Len(Append(u, f)) = Len(u) + 1 /\ Len(u) \in Nat
        /\ \A i \in 1 .. Len(u) : Append(u, f)[i] = u[i]
        /\ Append(u, f)[Len(u) + 1] = f
    BY <1>1, AppendFacts
  <2>2. \A i \in 1 .. Len(Append(u, f)) : i \in 1 .. Len(u) \/ i = Len(u) + 1
    BY <2>1
  <2>3. QED
    BY <1>1, <2>1, <2>2
<1>4. Append(u, f) \in Seq(UpFrames)
  BY <1>1, AppendFacts
<1>5. QED
  BY <1>2, <1>3, <1>4 DEF StreamUp

\* The worker takes a frame that begins no session.
LEMMA QuietPop ==
    ASSUME ProtocolInv, down # << >>, down' = Tail(down),
           w' \in WorkersTyped, w'.sid = w.sid, w'.active => w.active /\ (w'.source <=> w.source),
           w'.seq >= 1,
           IF Head(down).type = "TRANSLATE" THEN w'.set = Head(down).arg ELSE w'.set = w.set,
           \/ ~Pausing(Head(down), c.sid) /\ (w.sid = c.sid => (w'.paused <=> w.paused))
           \/ Pausing(Head(down), c.sid)
              /\ (w'.active /\ w.sid = c.sid => (w'.paused <=> PauseFlag(Head(down)))),
           UNCHANGED <<c, call, drawn, calls, accepted, returned>>,
           StreamUp(up', accepted, w.sid, w'.active, w'.source)
    PROVE  ProtocolInv'
<1>0. /\ c \in Clients /\ calls \in Nat /\ calls <= MaxCalls /\ drawn \in 0 .. MaxSessions
      /\ accepted \subseteq 1 .. drawn /\ accepted \in SUBSET Nat /\ c.sid \in Nat
      /\ returned \in Nat \X Nat /\ down \in Seq(DownFrames)
      /\ call \in {"none", "hello", "start", "seek"}
  BY SMTT(30), TypeFacts
<1>1. c.pipe
  BY DEF ProtocolInv, NoTransport
<1>2. ProtocolTyped'
  <2>1. down' \in Seq(DownFrames) /\ up' \in Seq(UpFrames)
    BY <1>0, TailFacts DEF StreamUp
  <2>2. QED
    BY <1>0, <2>1, TypesFollow
<1>3. NoTransport'
  BY <1>1 DEF ProtocolInv, NoTransport
<1>4. SessionsOrdered'
  <2>1. StartsFresh(down', c.sid, accepted)
    BY <1>0, StartsTail DEF ProtocolInv, SessionsOrdered
  <2>2. QED
    BY <2>1 DEF ProtocolInv, SessionsOrdered
<1>5. SessionConfirmed'
  BY DEF ProtocolInv, SessionConfirmed, StreamUp
<1>6. SettingsFollow'
  <2>1. SettingsOnTheWay(down, c.modern, c.cfg, w.sid, w.set)
    BY <1>1 DEF ProtocolInv, SettingsFollow
  <2>2. SettingsOnTheWay(Tail(down), c.modern, c.cfg, w.sid, w'.set)
    BY <1>0, <2>1, SettingsTail
  <2>3. QED
    BY <2>2 DEF SettingsFollow
<1>7. PauseFollows'
  <2> DEFINE waiting == call \in {"start", "seek"}
  <2>1. PauseOnTheWay(down, c.sid, c.active, c.paused, waiting, w.sid, w.active, w.paused)
    BY DEF ProtocolInv, PauseFollows
  <2> HIDE DEF waiting
  <2>2. PauseOnTheWay(Tail(down), c.sid, c.active, c.paused, waiting, w.sid, w'.active, w'.paused)
    BY <1>0, <2>1, PauseTail
  <2>3. QED
    BY <2>2 DEF PauseFollows, waiting
<1>8. FramesNumbered'
  BY DEF ProtocolInv, FramesNumbered, StreamUp
<1>9. QED
  BY <1>2, <1>3, <1>4, <1>5, <1>6, <1>7, <1>8 DEF ProtocolInv

\* Numbering the frames changes nothing else of the worker.
LEMMA Numbered ==
    ASSUME NEW worker \in WorkersTyped, NEW n \in Nat, NEW k \in Nat, n >= 1,
           w' = [worker EXCEPT !.seq = n + k]
    PROVE  /\ w' \in WorkersTyped /\ w'.sid = worker.sid /\ w'.active = worker.active
           /\ w'.source = worker.source /\ w'.set = worker.set /\ w'.paused = worker.paused
           /\ w'.seq >= 1
<1>1. n + k \in Nat /\ n + k >= 1
  OBVIOUS
<1>2. QED
  BY <1>1 DEF WorkersTyped

\* The stream to the client as it is, also when the worker's session ends.
LEMMA StreamKept ==
    ASSUME ProtocolInv, NEW wa, NEW source, wa => w.active /\ (source <=> w.source)
    PROVE  StreamUp(up, accepted, w.sid, wa, source)
<1>0. up \in Seq(UpFrames)
  BY TypeFacts
<1>1. StartedsTrue(up, accepted, w.sid, w.active, w.source)
  BY DEF ProtocolInv, SessionConfirmed
<1>2. StartedsTrue(up, accepted, w.sid, wa, source)
  BY <1>0, <1>1, StartedsStep
<1>3. QED
  BY <1>0, <1>2 DEF ProtocolInv, FramesNumbered, StreamUp

\* The worker's next frame, when it is no STARTED, added to the stream.
LEMMA StreamGrows ==
    ASSUME ProtocolInv, NEW wa, NEW source, wa => w.active /\ (source <=> w.source),
           NEW t, NEW s, NEW a, Frame(t, s, w.seq + 1, a) \in UpFrames, t # "STARTED"
    PROVE  StreamUp(Append(up, Frame(t, s, w.seq + 1, a)), accepted, w.sid, wa, source)
<1> DEFINE f == Frame(t, s, w.seq + 1, a)
<1>1. f.type = t /\ f.seq = w.seq + 1
  BY DEF Frame
<1>2. f.seq >= 2
  BY <1>1, TypeFacts DEF ProtocolInv, FramesNumbered
<1>3. StreamUp(up, accepted, w.sid, wa, source)
  BY StreamKept
<1>4. f \in UpFrames
  OBVIOUS
<1> HIDE DEF f
<1>5. StreamUp(Append(up, f), accepted, w.sid, wa, source)
  BY <1>1, <1>2, <1>3, <1>4, StreamAppend
<1>6. QED
  BY <1>5 DEF f

\* HELLO, STOP, AUDIO, MODEL_CTRL, SHUTDOWN: the session goes on as it was, or ends.
LEMMA WorkerPlainKeeps ==
    ASSUME ProtocolInv,
           WorkerHello \/ WorkerStop \/ WorkerAudio \/ WorkerModelCtrl \/ WorkerShutdown
    PROVE  ProtocolInv'
<1>0. w \in WorkersTyped /\ up \in Seq(UpFrames) /\ w.seq \in Nat /\ w.sid \in Nat /\ w.seq >= 1
  BY TypeFacts DEF ProtocolInv, FramesNumbered
<1>1. /\ down # << >> /\ down' = Tail(down) /\ UNCHANGED <<c, call, drawn, calls, accepted, returned>>
      /\ Head(down).type \in {"HELLO", "STOP", "AUDIO", "MODEL_CTRL", "SHUTDOWN"}
  BY DEF WorkerHello, WorkerStop, WorkerAudio, WorkerModelCtrl, WorkerShutdown, Pops, WorkerKeeps
<1>2. ~Pausing(Head(down), c.sid) /\ Head(down).type # "TRANSLATE"
  BY <1>1 DEF Pausing
<1> DEFINE Quiet == /\ w' \in WorkersTyped /\ w'.sid = w.sid
                    /\ w'.active => w.active /\ (w'.source <=> w.source)
                    /\ w'.seq >= 1 /\ w'.set = w.set /\ (w'.paused <=> w.paused)
                    /\ StreamUp(up', accepted, w.sid, w'.active, w'.source)
<1>3. Quiet => ProtocolInv'
  BY <1>1, <1>2, QuietPop
<1>4. CASE WorkerHello
  <2> DEFINE worker == [w EXCEPT !.auth = TRUE]
             f == Frame("HELLO_ACK", 0, w.seq + 1, 0)
  <2>1. worker \in WorkersTyped /\ Emits(worker, << <<"HELLO_ACK", 0, 0>> >>)
    BY <1>0, <1>4 DEF WorkersTyped, WorkerHello
  <2>2. f \in UpFrames
    BY <1>0 DEF Frame, UpFrames
  <2>3. up' = Append(up, f) /\ w' = [worker EXCEPT !.seq = w.seq + 1]
    BY <1>0, <2>1, <2>2, EmitsOne
  <2>4. /\ w' \in WorkersTyped /\ w'.sid = w.sid /\ w'.active = w.active /\ w'.source = w.source
        /\ w'.seq >= 1 /\ w'.set = w.set /\ w'.paused = w.paused
    <3>1. /\ w' \in WorkersTyped /\ w'.sid = worker.sid /\ w'.active = worker.active
          /\ w'.source = worker.source /\ w'.set = worker.set /\ w'.paused = worker.paused
          /\ w'.seq >= 1
      BY <1>0, <2>1, <2>3, Numbered
    <3>2. QED
      BY <1>0, <3>1 DEF WorkersTyped
  <2>5. StreamUp(Append(up, f), accepted, w.sid, w'.active, w'.source)
    BY <2>2, <2>4, StreamGrows
  <2>6. QED
    BY <1>3, <2>3, <2>4, <2>5
<1>5. CASE WorkerStop /\ Head(down).sid = w.sid
  <2> DEFINE worker == [w EXCEPT !.active = FALSE, !.source = FALSE]
             f == Frame("STATUS", w.sid, w.seq + 1, 0)
  <2>1. worker \in WorkersTyped /\ Emits(worker, << <<"STATUS", w.sid, 0>> >>)
    BY <1>0, <1>5 DEF WorkersTyped, WorkerStop
  <2>2. f \in UpFrames
    BY <1>0 DEF Frame, UpFrames
  <2>3. up' = Append(up, f) /\ w' = [worker EXCEPT !.seq = w.seq + 1]
    BY <1>0, <2>1, <2>2, EmitsOne
  <2>4. /\ w' \in WorkersTyped /\ w'.sid = w.sid /\ ~w'.active
        /\ w'.seq >= 1 /\ w'.set = w.set /\ w'.paused = w.paused
    <3>1. /\ w' \in WorkersTyped /\ w'.sid = worker.sid /\ w'.active = worker.active
          /\ w'.source = worker.source /\ w'.set = worker.set /\ w'.paused = worker.paused
          /\ w'.seq >= 1
      BY <1>0, <2>1, <2>3, Numbered
    <3>2. QED
      BY <1>0, <3>1 DEF WorkersTyped
  <2>5. StreamUp(Append(up, f), accepted, w.sid, w'.active, w'.source)
    BY <2>2, <2>4, StreamGrows
  <2>6. QED
    BY <1>3, <2>3, <2>4, <2>5
<1>6. CASE up' = up /\ (w' = w \/ w' = [w EXCEPT !.loading = TRUE] \/ w' = [w EXCEPT !.alive = FALSE])
  <2>1. /\ w' \in WorkersTyped /\ w'.sid = w.sid /\ w'.active = w.active /\ w'.source = w.source
        /\ w'.seq >= 1 /\ w'.set = w.set /\ w'.paused = w.paused
    BY <1>0, <1>6 DEF WorkersTyped
  <2>2. StreamUp(up, accepted, w.sid, w'.active, w'.source)
    BY <2>1, StreamKept
  <2>3. QED
    BY <1>3, <1>6, <2>1, <2>2
<1>7. QED
  BY <1>4, <1>5, <1>6 DEF WorkerStop, WorkerAudio, WorkerModelCtrl, WorkerShutdown

\* POSITION, PAUSE and RESUME: the session they name is paused as they say.
LEMMA WorkerPausesKeeps ==
    ASSUME ProtocolInv, WorkerPauses
    PROVE  ProtocolInv'
<1> DEFINE h == Head(down)
           takes == w.active /\ h.sid = w.sid /\ (h.type = "POSITION" => h.arg # w.paused)
           worker == [w EXCEPT !.paused = PauseFlag(h)]
           f == Frame("STATUS", w.sid, w.seq + 1, 0)
<1>0. /\ w \in WorkersTyped /\ up \in Seq(UpFrames) /\ w.seq \in Nat /\ w.sid \in Nat /\ w.seq >= 1
      /\ down \in Seq(DownFrames)
  BY TypeFacts DEF ProtocolInv, FramesNumbered
<1>1. /\ down # << >> /\ down' = Tail(down) /\ UNCHANGED <<c, call, drawn, calls, accepted, returned>>
      /\ h.type \in {"POSITION", "PAUSE", "RESUME"}
      /\ IF takes THEN Emits(worker, << <<"STATUS", w.sid, 0>> >>) ELSE UNCHANGED <<w, up>>
  BY DEF WorkerPauses, Pops, WorkerKeeps
<1>2. h \in DownFrames
  BY <1>0, <1>1, TailFacts
<1>3. PauseFlag(h) \in BOOLEAN /\ h.type # "TRANSLATE" /\ (h.type = "POSITION" => h.arg \in BOOLEAN)
  BY <1>1, <1>2 DEF PauseFlag, DownFrames
<1>4. Pausing(h, c.sid) <=> h.sid = c.sid
  BY <1>1 DEF Pausing
<1> HIDE DEF h
<1>5. CASE takes
  <2>1. worker \in WorkersTyped
    BY <1>0, <1>3 DEF WorkersTyped
  <2>2. f \in UpFrames
    BY <1>0 DEF Frame, UpFrames
  <2>3. up' = Append(up, f) /\ w' = [worker EXCEPT !.seq = w.seq + 1]
    BY <1>0, <1>1, <1>5, <2>1, <2>2, EmitsOne
  <2>4. /\ w' \in WorkersTyped /\ w'.sid = w.sid /\ w'.active = w.active /\ w'.source = w.source
        /\ w'.seq >= 1 /\ w'.set = w.set /\ w'.paused = PauseFlag(h)
    <3>1. /\ w' \in WorkersTyped /\ w'.sid = worker.sid /\ w'.active = worker.active
          /\ w'.source = worker.source /\ w'.set = worker.set /\ w'.paused = worker.paused
          /\ w'.seq >= 1
      BY <1>0, <2>1, <2>3, Numbered
    <3>2. QED
      BY <1>0, <3>1 DEF WorkersTyped
  <2>5. StreamUp(up', accepted, w.sid, w'.active, w'.source)
    BY <2>2, <2>3, <2>4, StreamGrows
  <2>6. QED
    BY <1>1, <1>3, <1>4, <1>5, <2>4, <2>5, QuietPop DEF h
<1>6. CASE ~takes
  <2>1. w' = w /\ up' = up
    BY <1>1, <1>6
  <2>2. StreamUp(up', accepted, w.sid, w'.active, w'.source)
    BY <2>1, StreamKept
  <2>3. w.active /\ h.sid = w.sid => (w.paused <=> PauseFlag(h))
    BY <1>0, <1>3, <1>6 DEF PauseFlag, WorkersTyped
  <2>4. QED
    BY <1>0, <1>1, <1>3, <1>4, <2>1, <2>2, <2>3, QuietPop DEF h
<1>7. QED
  BY <1>5, <1>6

\* TRANSLATE_CTRL: it names the worker's session, so its settings are taken over.
LEMMA WorkerTranslateKeeps ==
    ASSUME ProtocolInv, WorkerTranslate
    PROVE  ProtocolInv'
<1> DEFINE h == Head(down)
<1>0. /\ w \in WorkersTyped /\ w.seq >= 1 /\ down \in Seq(DownFrames)
  BY TypeFacts DEF ProtocolInv, FramesNumbered
<1>1. /\ down # << >> /\ down' = Tail(down) /\ UNCHANGED <<c, call, drawn, calls, accepted, returned, up>>
      /\ h.type = "TRANSLATE" /\ w' = IF h.sid = w.sid THEN [w EXCEPT !.set = h.arg] ELSE w
  BY DEF WorkerTranslate, Pops, WorkerKeeps
<1>2. h \in DownFrames /\ h = down[1] /\ 1 \in 1 .. Len(down)
  BY <1>0, <1>1, TailFacts
<1>3. h.arg \in Settings /\ ~Pausing(h, c.sid)
  BY <1>1, <1>2 DEF DownFrames, Pausing
<1>4. c.pipe
  BY <1>1 DEF ProtocolInv, NoTransport
<1>5. h.sid = w.sid
  BY <1>1, <1>2, <1>4 DEF ProtocolInv, SettingsFollow, SettingsOnTheWay
<1> HIDE DEF h
<1>6. /\ w' \in WorkersTyped /\ w'.sid = w.sid /\ w'.active = w.active /\ w'.source = w.source
      /\ w'.seq >= 1 /\ w'.set = h.arg /\ w'.paused = w.paused
  BY <1>0, <1>1, <1>3, <1>5 DEF WorkersTyped
<1>7. StreamUp(up', accepted, w.sid, w'.active, w'.source)
  BY <1>1, <1>6, StreamKept
<1>8. QED
  BY <1>1, <1>3, <1>6, <1>7, QuietPop DEF h

\* START accepted: a new session, unpaused, and STARTED on its way.
LEMMA AcceptKeeps ==
    ASSUME ProtocolInv, down # << >>, down' = Tail(down), Head(down).type = "START",
           UNCHANGED <<c, call, drawn, calls, returned>>,
           accepted' = accepted \cup {Head(down).sid},
           w' \in WorkersTyped, w'.sid = Head(down).sid, ~w'.paused, w'.set = w.set, w'.seq >= 1,
           StreamUp(up', accepted', w'.sid, w'.active, w'.source)
    PROVE  ProtocolInv'
<1> DEFINE s == Head(down).sid
<1>0. /\ c \in Clients /\ calls \in Nat /\ calls <= MaxCalls /\ drawn \in 0 .. MaxSessions
      /\ accepted \subseteq 1 .. drawn /\ accepted \in SUBSET Nat /\ c.sid \in Nat
      /\ returned \in Nat \X Nat /\ down \in Seq(DownFrames) /\ drawn \in Nat
      /\ call \in {"none", "hello", "start", "seek"}
  BY SMTT(30), TypeFacts
<1>1. c.pipe
  BY DEF ProtocolInv, NoTransport
<1>2. Head(down) = down[1] /\ 1 \in 1 .. Len(down) /\ down[1] \in DownFrames
  BY <1>0, TailFacts
<1>3. s \in Nat /\ s >= 1 /\ s <= c.sid /\ c.sid <= drawn
  BY <1>2 DEF DownFrames, ProtocolInv, SessionsOrdered, StartsFresh
<1>4. c.sid \notin accepted
  BY <1>1, <1>2, AcceptedIsRead
<1> HIDE DEF s
<1>5. ProtocolTyped'
  <2>1. down' \in Seq(DownFrames) /\ up' \in Seq(UpFrames)
    BY <1>0, TailFacts DEF StreamUp
  <2>2. accepted' \subseteq 1 .. drawn
    <3>1. s \in 1 .. drawn
      BY <1>0, <1>3
    <3>2. accepted' = accepted \cup {s}
      BY DEF s
    <3>3. QED
      BY <1>0, <3>1, <3>2
  <2>3. QED
    BY <1>0, <2>1, <2>2, TypesFollow
<1>6. NoTransport'
  BY <1>1 DEF ProtocolInv, NoTransport
<1>7. SessionsOrdered'
  <2>1. StartsFresh(down', c.sid, accepted')
    BY <1>0, StartsTail DEF ProtocolInv, SessionsOrdered
  <2>2. QED
    BY <1>3, <1>4, <2>1 DEF SessionsOrdered, s
<1>8. SessionConfirmed'
  BY <1>4 DEF ProtocolInv, SessionConfirmed, StreamUp
<1>9. SettingsFollow'
  <2>1. SettingsOnTheWay(down, c.modern, c.cfg, w.sid, w.set)
    BY <1>1 DEF ProtocolInv, SettingsFollow
  <2>2. SettingsOnTheWay(Tail(down), c.modern, c.cfg, w'.sid, w'.set)
    BY <1>0, <2>1, SettingsTail
  <2>3. QED
    BY <2>2 DEF SettingsFollow
<1>10. PauseFollows'
  <2> DEFINE waiting == call \in {"start", "seek"}
  <2>1. PauseOnTheWay(down, c.sid, c.active, c.paused, waiting, w.sid, w.active, w.paused)
    BY DEF ProtocolInv, PauseFollows
  <2> HIDE DEF waiting
  <2>2. PauseOnTheWay(Tail(down), c.sid, c.active, c.paused, waiting, w'.sid, w'.active, w'.paused)
    BY <1>0, <2>1, PauseTail
  <2>3. QED
    BY <2>2 DEF PauseFollows, waiting
<1>11. FramesNumbered'
  BY DEF ProtocolInv, FramesNumbered, StreamUp
<1>12. QED
  BY <1>5, <1>6, <1>7, <1>8, <1>9, <1>10, <1>11 DEF ProtocolInv

\* START: rejected, accepted, or accepted without its source.
LEMMA WorkerStartKeeps ==
    ASSUME ProtocolInv, WorkerStart
    PROVE  ProtocolInv'
<1> DEFINE h == Head(down)
           s == h.sid
<1>0. /\ w \in WorkersTyped /\ up \in Seq(UpFrames) /\ w.seq \in Nat /\ w.sid \in Nat /\ w.seq >= 1
      /\ down \in Seq(DownFrames) /\ accepted \in SUBSET Nat /\ drawn <= MaxSessions
      /\ drawn \in Nat /\ MaxSessions \in Nat /\ c.sid \in Nat
  BY TypeFacts DEF ProtocolInv, FramesNumbered
<1>1. /\ down # << >> /\ down' = Tail(down) /\ h.type = "START"
      /\ UNCHANGED <<c, call, drawn, calls, returned>>
  BY DEF WorkerStart, Pops, WorkerKeeps
<1>2. h = down[1] /\ 1 \in 1 .. Len(down) /\ h \in DownFrames
  BY <1>0, <1>1, TailFacts
<1>3. s \in Nat /\ h.arg \in BOOLEAN
  BY <1>1, <1>2 DEF DownFrames
<1>4. s >= 1 /\ s <= c.sid /\ c.sid <= drawn /\ \A a \in accepted : a < s
  BY <1>1, <1>2 DEF ProtocolInv, SessionsOrdered, StartsFresh
<1>5. s \in 0 .. MaxSessions /\ s \notin accepted
  BY <1>0, <1>3, <1>4
<1>6. ~Pausing(h, c.sid) /\ h.type # "TRANSLATE"
  BY <1>1 DEF Pausing
<1>7. w.seq + 1 \in Nat /\ w.seq + 2 \in Nat /\ w.seq + 3 \in Nat
      /\ w.seq + 1 >= 2 /\ w.seq + 2 >= 2 /\ w.seq + 3 >= 2
  BY SMTT(30), <1>0
<1>8. CASE Emits([w EXCEPT !.active = FALSE], << <<"ERROR", s, "rejected">> >>) /\ UNCHANGED accepted
  <2> DEFINE worker == [w EXCEPT !.active = FALSE]
             f == Frame("ERROR", s, w.seq + 1, "rejected")
  <2>1. worker \in WorkersTyped
    BY <1>0 DEF WorkersTyped
  <2>2. f \in UpFrames
    BY <1>3, <1>7 DEF Frame, UpFrames
  <2>3. up' = Append(up, f) /\ w' = [worker EXCEPT !.seq = w.seq + 1]
    BY <1>0, <1>8, <2>1, <2>2, EmitsOne
  <2>4. /\ w' \in WorkersTyped /\ w'.sid = worker.sid /\ w'.active = worker.active
        /\ w'.source = worker.source /\ w'.set = worker.set /\ w'.paused = worker.paused
        /\ w'.seq >= 1
    BY <1>0, <2>1, <2>3, Numbered
  <2>5. w'.sid = w.sid /\ ~w'.active /\ w'.set = w.set /\ w'.paused = w.paused
    BY <1>0, <2>4 DEF WorkersTyped
  <2>6. StreamUp(up', accepted, w.sid, w'.active, w'.source)
    BY <2>2, <2>3, <2>5, StreamGrows
  <2>7. QED
    BY <1>1, <1>6, <1>8, <2>4, <2>5, <2>6, QuietPop
<1>9. ASSUME NEW source \in BOOLEAN
      PROVE  /\ NewSession(s, source) \in WorkersTyped /\ NewSession(s, source).sid = s
             /\ NewSession(s, source).source = source /\ ~NewSession(s, source).paused
             /\ NewSession(s, source).set = w.set
             /\ StreamUp(up, accepted \cup {s}, s, NewSession(s, source).active, source)
  <2> DEFINE worker == NewSession(s, source)
  <2>1. worker \in WorkersTyped /\ worker.sid = s /\ worker.source = source /\ ~worker.paused
        /\ worker.set = w.set
    BY <1>0, <1>5 DEF NewSession, WorkersTyped
  <2>2. StartedsTrue(up, accepted, w.sid, w.active, w.source)
    BY DEF ProtocolInv, SessionConfirmed
  <2>3. StartedsTrue(up, accepted \cup {s}, s, worker.active, source)
    BY <1>0, <1>5, <2>2, StartedsStep
  <2>4. QED
    BY <1>0, <2>1, <2>3 DEF StreamUp, ProtocolInv, FramesNumbered
<1>10. CASE /\ accepted' = accepted \cup {s}
            /\ Emits(NewSession(s, h.arg), << <<"STARTED", s, h.arg>>, <<"STATUS", s, 0>> >>)
  <2> DEFINE worker == NewSession(s, h.arg)
             f == Frame("STARTED", s, w.seq + 1, h.arg)
             g == Frame("STATUS", s, w.seq + 2, 0)
  <2>1. /\ worker \in WorkersTyped /\ worker.sid = s /\ worker.source = h.arg /\ ~worker.paused
        /\ worker.set = w.set /\ StreamUp(up, accepted', s, worker.active, h.arg)
    BY <1>3, <1>9, <1>10
  <2>2. /\ f \in UpFrames /\ f.type = "STARTED" /\ f.sid = s /\ f.arg = h.arg /\ f.seq = w.seq + 1
        /\ g \in UpFrames /\ g.type = "STATUS" /\ g.seq = w.seq + 2
    BY <1>3, <1>7 DEF Frame, UpFrames
  <2>3. up' = Append(Append(up, f), g) /\ w' = [worker EXCEPT !.seq = w.seq + 2]
    BY <1>0, <1>10, <2>1, <2>2, EmitsTwo
  <2>4. /\ w' \in WorkersTyped /\ w'.sid = worker.sid /\ w'.active = worker.active
        /\ w'.source = worker.source /\ w'.set = worker.set /\ w'.paused = worker.paused
        /\ w'.seq >= 1
    BY <1>0, <2>1, <2>3, Numbered
  <2> HIDE DEF f, g, worker, h
  <2>5. StreamUp(Append(up, f), accepted', s, worker.active, h.arg)
    BY <1>7, <1>10, <2>1, <2>2, StreamAppend
  <2>6. StreamUp(up', accepted', s, worker.active, h.arg)
    BY <1>7, <2>2, <2>3, <2>5, StreamAppend
  <2>7. QED
    BY <1>1, <1>10, <2>1, <2>4, <2>6, AcceptKeeps DEF h
<1>11. CASE /\ accepted' = accepted \cup {s}
            /\ Emits(NewSession(s, FALSE), << <<"ERROR", s, "sourceOpen">>, <<"STARTED", s, FALSE>>,
                                              <<"STATUS", s, 0>> >>)
  <2> DEFINE worker == NewSession(s, FALSE)
             e == Frame("ERROR", s, w.seq + 1, "sourceOpen")
             f == Frame("STARTED", s, w.seq + 2, FALSE)
             g == Frame("STATUS", s, w.seq + 3, 0)
  <2>1. /\ worker \in WorkersTyped /\ worker.sid = s /\ worker.source = FALSE /\ ~worker.paused
        /\ worker.set = w.set /\ StreamUp(up, accepted', s, worker.active, FALSE)
    BY <1>9, <1>11
  <2>2. /\ e \in UpFrames /\ e.type = "ERROR" /\ e.seq = w.seq + 1
        /\ f \in UpFrames /\ f.type = "STARTED" /\ f.sid = s /\ f.arg = FALSE /\ f.seq = w.seq + 2
        /\ g \in UpFrames /\ g.type = "STATUS" /\ g.seq = w.seq + 3
    BY <1>3, <1>7 DEF Frame, UpFrames
  <2>3. up' = Append(Append(Append(up, e), f), g) /\ w' = [worker EXCEPT !.seq = w.seq + 3]
    BY <1>0, <1>11, <2>1, <2>2, EmitsThree
  <2>4. /\ w' \in WorkersTyped /\ w'.sid = worker.sid /\ w'.active = worker.active
        /\ w'.source = worker.source /\ w'.set = worker.set /\ w'.paused = worker.paused
        /\ w'.seq >= 1
    BY <1>0, <2>1, <2>3, Numbered
  <2> HIDE DEF e, f, g, worker, h
  <2>5. StreamUp(Append(up, e), accepted', s, worker.active, FALSE)
    BY <1>7, <2>1, <2>2, StreamAppend
  <2>6. StreamUp(Append(Append(up, e), f), accepted', s, worker.active, FALSE)
    BY <1>7, <1>11, <2>2, <2>5, StreamAppend
  <2>7. StreamUp(up', accepted', s, worker.active, FALSE)
    BY <1>7, <2>2, <2>3, <2>6, StreamAppend
  <2>8. QED
    BY <1>1, <1>11, <2>1, <2>4, <2>7, AcceptKeeps DEF h
<1>12. QED
  BY <1>8, <1>10, <1>11 DEF WorkerStart

\* The worker does something of its own, or ends.
LEMMA QuietStep ==
    ASSUME ProtocolInv, UNCHANGED <<c, call, down, drawn, calls, accepted, returned>>,
           w' \in WorkersTyped, w'.sid = w.sid, w'.active => w.active /\ (w'.source <=> w.source),
           w'.seq >= 1, w'.set = w.set, w'.paused = w.paused,
           StreamUp(up', accepted, w.sid, w'.active, w'.source),
           ~c.pipe => up' = << >> /\ ~w'.alive
    PROVE  ProtocolInv'
<1>0. /\ c \in Clients /\ calls \in Nat /\ calls <= MaxCalls /\ drawn \in 0 .. MaxSessions
      /\ accepted \subseteq 1 .. drawn /\ returned \in Nat \X Nat /\ down \in Seq(DownFrames)
      /\ call \in {"none", "hello", "start", "seek"}
  BY TypeFacts
<1>1. ProtocolTyped'
  <2>1. up' \in Seq(UpFrames)
    BY DEF StreamUp
  <2>2. QED
    BY <1>0, <2>1, TypesFollow
<1>2. NoTransport'
  BY DEF ProtocolInv, NoTransport
<1>3. SessionsOrdered' /\ SettingsFollow'
  BY DEF ProtocolInv, SessionsOrdered, SettingsFollow
<1>4. SessionConfirmed'
  BY DEF ProtocolInv, SessionConfirmed, StreamUp
<1>5. PauseFollows'
  <2> DEFINE waiting == call \in {"start", "seek"}
  <2>1. PauseOnTheWay(down, c.sid, c.active, c.paused, waiting, w.sid, w.active, w.paused)
    BY DEF ProtocolInv, PauseFollows
  <2> HIDE DEF waiting
  <2>2. PauseOnTheWay(down, c.sid, c.active, c.paused, waiting, w.sid, w'.active, w.paused)
    BY <1>0, <2>1, PauseWeaker
  <2>3. QED
    BY <2>2 DEF PauseFollows, waiting
<1>6. FramesNumbered'
  BY DEF ProtocolInv, FramesNumbered, StreamUp
<1>7. QED
  BY <1>1, <1>2, <1>3, <1>4, <1>5, <1>6 DEF ProtocolInv

\* Captions, diagnostics, the failure of the source, the end of a download.
LEMMA VolunteersKeep ==
    ASSUME ProtocolInv, Volunteers
    PROVE  ProtocolInv'
<1>a. c.pipe
  BY DEF Volunteers, ProtocolInv, NoTransport
<1>0. w \in WorkersTyped /\ up \in Seq(UpFrames) /\ w.seq \in Nat /\ w.sid \in Nat /\ w.seq >= 1
  BY TypeFacts DEF ProtocolInv, FramesNumbered
<1>1. UNCHANGED <<c, call, down, drawn, calls, accepted, returned>>
  BY DEF Volunteers, WorkerKeeps
<1>2. ASSUME NEW worker \in WorkersTyped, NEW t, NEW s, NEW a, Emits(worker, << <<t, s, a>> >>),
             Frame(t, s, w.seq + 1, a) \in UpFrames, t # "STARTED",
             worker.sid = w.sid, worker.active => w.active /\ (worker.source <=> w.source),
             worker.set = w.set, worker.paused = w.paused
      PROVE  ProtocolInv'
  <2>1. up' = Append(up, Frame(t, s, w.seq + 1, a)) /\ w' = [worker EXCEPT !.seq = w.seq + 1]
    BY <1>0, <1>2, EmitsOne
  <2>2. /\ w' \in WorkersTyped /\ w'.sid = worker.sid /\ w'.active = worker.active
        /\ w'.source = worker.source /\ w'.set = worker.set /\ w'.paused = worker.paused
        /\ w'.seq >= 1
    BY <1>0, <2>1, Numbered
  <2>3. StreamUp(up', accepted, w.sid, w'.active, w'.source)
    BY <1>2, <2>1, <2>2, StreamGrows
  <2>4. QED
    BY <1>a, <1>1, <1>2, <2>2, <2>3, QuietStep
<1>3. CASE Emits(w, << <<"CAPTION", w.sid, 0>> >>)
  <2>1. Frame("CAPTION", w.sid, w.seq + 1, 0) \in UpFrames
    BY <1>0 DEF Frame, UpFrames
  <2>2. QED
    BY <1>0, <1>2, <1>3, <2>1
<1>4. CASE Emits(w, << <<"ERROR", w.sid, "translation">> >>)
  <2>1. Frame("ERROR", w.sid, w.seq + 1, "translation") \in UpFrames
    BY <1>0 DEF Frame, UpFrames
  <2>2. QED
    BY <1>0, <1>2, <1>4, <2>1
<1>5. CASE Emits([w EXCEPT !.active = FALSE, !.source = FALSE], << <<"ERROR", w.sid, "fatal">> >>)
  <2> DEFINE worker == [w EXCEPT !.active = FALSE, !.source = FALSE]
  <2>1. Frame("ERROR", w.sid, w.seq + 1, "fatal") \in UpFrames
    BY <1>0 DEF Frame, UpFrames
  <2>2. /\ worker \in WorkersTyped /\ worker.sid = w.sid /\ ~worker.active
        /\ worker.set = w.set /\ worker.paused = w.paused
    BY <1>0 DEF WorkersTyped
  <2>3. QED
    BY <1>2, <1>5, <2>1, <2>2
<1>6. CASE Emits([w EXCEPT !.loading = FALSE], << <<"PROGRESS", 0, 0>> >>)
  <2> DEFINE worker == [w EXCEPT !.loading = FALSE]
  <2>1. Frame("PROGRESS", 0, w.seq + 1, 0) \in UpFrames
    BY <1>0 DEF Frame, UpFrames
  <2>2. /\ worker \in WorkersTyped /\ worker.sid = w.sid /\ worker.active = w.active
        /\ worker.source = w.source /\ worker.set = w.set /\ worker.paused = w.paused
    BY <1>0 DEF WorkersTyped
  <2>3. QED
    BY <1>2, <1>6, <2>1, <2>2
<1>7. QED
  BY <1>3, <1>4, <1>5, <1>6 DEF Volunteers

\* The worker dies.
LEMMA WorkerDiesKeeps ==
    ASSUME ProtocolInv, WorkerDies
    PROVE  ProtocolInv'
<1>0. w \in WorkersTyped /\ w.seq >= 1
  BY TypeFacts DEF ProtocolInv, FramesNumbered
<1>1. /\ UNCHANGED <<c, call, down, up, drawn, calls, accepted, returned>>
      /\ w' = [w EXCEPT !.alive = FALSE]
  BY DEF WorkerDies, WorkerKeeps
<1>2. /\ w' \in WorkersTyped /\ w'.sid = w.sid /\ w'.active = w.active /\ w'.source = w.source
      /\ w'.seq >= 1 /\ w'.set = w.set /\ w'.paused = w.paused
      /\ ~w'.alive
  BY <1>0, <1>1 DEF WorkersTyped
<1>3. StreamUp(up', accepted, w.sid, w'.active, w'.source)
  BY <1>1, <1>2, StreamKept
<1>4. ~c.pipe => up' = << >> /\ ~w'.alive
  BY <1>1, <1>2 DEF ProtocolInv, NoTransport
<1>5. QED
  BY <1>1, <1>2, <1>3, <1>4, QuietStep

\* The stream repeats a frame.
LEMMA RepeatKeeps ==
    ASSUME ProtocolInv, Repeat
    PROVE  ProtocolInv'
<1> DEFINE f == Head(up)
<1>0. w \in WorkersTyped /\ w.seq >= 1 /\ up \in Seq(UpFrames)
  BY TypeFacts DEF ProtocolInv, FramesNumbered
<1>1. /\ up # << >> /\ up' = <<f>> \o up
      /\ UNCHANGED <<c, call, w, down, drawn, calls, accepted, returned>>
  BY DEF Repeat
<1>2. f = up[1] /\ f \in UpFrames /\ 1 \in 1 .. Len(up)
  BY <1>0, <1>1, TailFacts
<1> HIDE DEF f
<1>3. /\ up' \in Seq(UpFrames) /\ Len(up) \in Nat /\ Len(up') = Len(up) + 1
      /\ \A i \in 1 .. Len(up') : up'[i] = (IF i = 1 THEN f ELSE up[i - 1])
  BY <1>0, <1>1, <1>2
<1>4. \A i \in 1 .. Len(up') : \E j \in 1 .. Len(up) : up'[i] = up[j]
  <2> SUFFICES ASSUME NEW i \in 1 .. Len(up') PROVE \E j \in 1 .. Len(up) : up'[i] = up[j]
    OBVIOUS
  <2>1. CASE i = 1
    BY <1>2, <1>3, <2>1
  <2>2. CASE i # 1
    <3>1. i - 1 \in 1 .. Len(up) /\ up'[i] = up[i - 1]
      BY <1>3, <2>2
    <3>2. QED
      BY <3>1
  <2>3. QED
    BY <2>1, <2>2
<1>5. StreamUp(up, accepted, w.sid, w.active, w.source)
  BY StreamKept
<1>6. StreamUp(up', accepted, w.sid, w'.active, w'.source)
  <2>1. ASSUME NEW i \in 1 .. Len(up')
        PROVE  /\ up'[i].seq >= 2
               /\ up'[i].type = "STARTED" =>
                     up'[i].sid \in accepted
                     /\ (w.active /\ up'[i].sid = w.sid => (up'[i].arg <=> w.source))
    <3>1. PICK j \in 1 .. Len(up) : up'[i] = up[j]
      BY <1>4
    <3>2. QED
      BY <1>5, <3>1 DEF StreamUp, StartedsTrue
  <2>2. QED
    BY <1>1, <1>3, <2>1 DEF StreamUp, StartedsTrue
<1>7. c.pipe
  BY <1>1 DEF ProtocolInv, NoTransport
<1>8. QED
  BY <1>0, <1>1, <1>6, <1>7, QuietStep

-----------------------------------------------------------------------------
\* Every step keeps the protocol's invariant.
LEMMA ProtocolNext == ProtocolInv /\ [Next]_vars => ProtocolInv'
<1> SUFFICES ASSUME ProtocolInv, [Next]_vars PROVE ProtocolInv'
  OBVIOUS
<1>0. drawn \in 0 .. MaxSessions /\ drawn <= drawn /\ calls \in Nat /\ calls <= MaxCalls
  BY TypeFacts
<1>1. CASE Launch
  BY <1>1, LaunchKeeps
<1>2. CASE Ack \/ StartError \/ StartDrains
  BY <1>2, WaitKeepsProtocol
<1>3. CASE HandshakeFails
  BY <1>0, <1>3, ClosedKeeps DEF HandshakeFails, WaitKeeps, CallKeeps
<1>4. CASE Started
  BY <1>4, StartedKeeps
<1>5. CASE \E asked \in BOOLEAN : StartSession(asked)
  BY <1>5, StartSessionKeeps
<1>6. CASE \E paused \in BOOLEAN : SeekSource(paused)
  BY <1>6, SeekSourceKeeps
<1>7. CASE \/ \E paused \in BOOLEAN : SendPosition(paused) \/ PauseOrResume(paused)
           \/ SendAudio \/ StopSession \/ SendModelCtrl \/ Shutdown
           \/ \E s \in Settings : SendTranslate(s)
  BY <1>7, CallsKeep
<1>8. CASE ReceiveFrame
  BY <1>8, ReceiveKeeps
<1>9. CASE ReceiveFails
  BY <1>0, <1>9, ClosedKeeps DEF ReceiveFails, CallKeeps
<1>10. CASE Disconnect
  BY <1>0, <1>10, ClosedKeeps DEF Disconnect, CallKeeps
<1>11. CASE WorkerHello \/ WorkerStop \/ WorkerAudio \/ WorkerModelCtrl \/ WorkerShutdown
  BY <1>11, WorkerPlainKeeps
<1>12. CASE WorkerStart
  BY <1>12, WorkerStartKeeps
<1>13. CASE WorkerPauses
  BY <1>13, WorkerPausesKeeps
<1>14. CASE WorkerTranslate
  BY <1>14, WorkerTranslateKeeps
<1>15. CASE Volunteers
  BY <1>15, VolunteersKeep
<1>16. CASE WorkerDies
  BY <1>16, WorkerDiesKeeps
<1>17. CASE Repeat
  BY <1>17, RepeatKeeps
<1>18. CASE UNCHANGED vars
  <2>1. UNCHANGED <<c, call, w, down, up, drawn, calls, accepted, returned>>
    BY <1>18 DEF vars
  <2>2. ProtocolTyped' /\ NoTransport' /\ SessionsOrdered' /\ SessionConfirmed'
    BY <2>1 DEF ProtocolInv, ProtocolTyped, ClientTypeOK, NoTransport, SessionsOrdered, SessionConfirmed
  <2>3. SettingsFollow' /\ PauseFollows' /\ FramesNumbered'
    BY <2>1 DEF ProtocolInv, SettingsFollow, PauseFollows, FramesNumbered
  <2>4. QED
    BY <2>2, <2>3 DEF ProtocolInv
<1>19. QED
  BY <1>1, <1>2, <1>3, <1>4, <1>5, <1>6, <1>7, <1>8, <1>9, <1>10, <1>11, <1>12, <1>13, <1>14,
     <1>15, <1>16, <1>17, <1>18 DEF Next, CallStep, WorkerStep, Over

\* The session protocol's invariant holds of every behaviour.
THEOREM ProtocolInvariant == Spec => []ProtocolInv
<1>1. Init => ProtocolInv
  BY ProtocolInit
<1>2. ProtocolInv /\ [Next]_vars => ProtocolInv'
  BY ProtocolNext
<1>3. QED
  BY <1>1, <1>2, PTL DEF Spec

\* vw_worker_client.c takes no stale frame for a new one, however many sessions,
\* workers and repeated frames there are: a session the client believes in is
\* one that a worker naming its sessions has accepted, and
\* vw_worker_client_receive_frame returns ever newer frames.
THEOREM NoStaleFrame == Spec => []StaleFramesIgnored
<1>1. ProtocolInv => StaleFramesIgnored
  BY DEF ProtocolInv, SessionConfirmed, FramesNumbered, StaleFramesIgnored,
         ConfirmedMeansAccepted, NoFrameTwice
<1>2. QED
  BY <1>1, ProtocolInvariant, PTL

\* The worker follows the client, whatever is repeated, rejected, lost with its
\* transport or still under way: they agree on who delivers the audio, and once
\* the worker has read everything its settings and its pause are the client's.
THEOREM ClientIsFollowed == Spec => []WorkerFollowsClient
<1>1. ASSUME ProtocolInv PROVE WorkerFollowsClient
  <2>0. c \in Clients /\ w \in WorkersTyped
    BY <1>1, TypeFacts
  <2>1. c.active => c.pipe
    BY <1>1 DEF ProtocolInv, NoTransport
  <2>2. SourceModesAgree
    BY <1>1, <2>0 DEF ProtocolInv, SessionConfirmed, SourceModesAgree, Clients, WorkersTyped
  <2>3. down = << >> => Len(down) = 0
    OBVIOUS
  <2>4. SettingsArrive
    BY <1>1, <2>1, <2>3 DEF ProtocolInv, SettingsFollow, SettingsOnTheWay, SettingsArrive
  <2>5. c.active /\ w.active /\ Len(down) = 0 /\ w.sid = c.sid => (w.paused <=> c.paused)
    BY <1>1 DEF ProtocolInv, PauseFollows, PauseOnTheWay
  <2>6. w.paused \in BOOLEAN /\ c.paused \in BOOLEAN
    BY <2>0 DEF Clients, WorkersTyped
  <2>7. PauseArrives
    BY <2>3, <2>5, <2>6 DEF PauseArrives
  <2>8. QED
    BY <2>2, <2>4, <2>7 DEF WorkerFollowsClient
<1>2. QED
  BY <1>1, ProtocolInvariant, PTL
=============================================================================
