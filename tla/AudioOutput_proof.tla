------------------------- MODULE AudioOutput_proof -------------------------
(* The invariants of the audio clock, and the refinement of the stream in  *)
(* the composed system.                                                    *)
EXTENDS AudioOutput, TLAPS

(* How far ahead of the frames consumed the three counts of frames are. *)
GoalAhead == Ahead(goalpost, frames)
TargetAhead == Ahead(target, frames)
AudioAhead == Ahead(audioFrames, frames)

Sizes == Chunks \cup {Period}

(* No wait: the last goal was served, and the machine is not ahead. *)
IdleInv ==
    main \in {"run", "tail", "reinit"} =>
        /\ previousGoalpost = goalpost
        /\ GoalAhead <= AudioAhead /\ AudioAhead <= 0
        /\ since <= MaxDrift
        /\ gaveUp = 0 => since + AudioAhead <= 0

(* How far ahead a goal may be. *)
TargetInv ==
    \E n \in Steps :
        /\ TargetAhead <= MaxDrift + n
        /\ gaveUp = 0 => TargetAhead <= n

(* A goal that is chosen and not posted yet is past the last one. *)
AskInv ==
    main \in {"decided", "loaded"} =>
        /\ previousGoalpost = goalpost
        /\ GoalAhead <= 0 /\ GoalAhead < TargetAhead
        /\ since = 0
        /\ TargetInv
        /\ main = "loaded" => moved = 0

WaitInv ==
    main = "waiting" =>
        /\ goalpost = target
        /\ since = 0
        /\ TargetInv
        /\ moved = 0 => goalpost # previousGoalpost
        /\ moved = 1 => previousGoalpost = goalpost /\ GoalAhead <= 0

(* A consumer in the middle of advanceFrames is the last that counted. *)
ConsumerInv ==
    main # "reinit" =>
        /\ \A c \in Consumers :
               adding[c] # None => \E m \in Sizes : frames = Plus(adding[c], m)
        /\ adding[NullThread] # None => nullSync = 1
        /\ adding[Device] # None => nullSync = 0

ActiveInv ==
    main # "reinit" =>
        /\ running = 0 => active = {}
        /\ running = 1 =>
               \/ active = Started
               \/ fallback = 1 /\ (active = Started \ {Device} \/ active = {})

DriftInv == GoalAhead >= - MaxDrift

ClockInv ==
    /\ ClockTypeOK /\ DriftInv /\ IdleInv /\ AskInv /\ WaitInv
    /\ ConsumerInv /\ ActiveInv

-----------------------------------------------------------------------------
(* Differences of counts, as if the counters did not wrap. *)

LEMMA AheadType ==
    ASSUME NEW a \in Frames, NEW b \in Frames
    PROVE  Ahead(a, b) \in Int /\ Ahead(a, b) >= - Half /\ Ahead(a, b) < Half
BY ClockAssumption DEF Ahead, Frames, Wrap

LEMMA AheadSelf == ASSUME NEW a \in Frames PROVE Ahead(a, a) = 0
BY ClockAssumption DEF Ahead, Frames, Wrap

LEMMA PlusType ==
    ASSUME NEW a \in Frames, NEW n \in Nat, n < Half PROVE Plus(a, n) \in Frames
BY ClockAssumption DEF Plus, Frames, Wrap

LEMMA AheadPlus ==
    ASSUME NEW a \in Frames, NEW b \in Frames, NEW n \in Nat, n < Half,
           Ahead(a, b) - n >= - Half
    PROVE  Ahead(a, Plus(b, n)) = Ahead(a, b) - n
BY ClockAssumption DEF Ahead, Plus, Frames, Wrap

LEMMA PlusAhead ==
    ASSUME NEW a \in Frames, NEW b \in Frames, NEW n \in Nat, n < Half,
           Ahead(a, b) + n < Half
    PROVE  Ahead(Plus(a, n), b) = Ahead(a, b) + n
BY ClockAssumption DEF Ahead, Plus, Frames, Wrap

(* Every number of frames that is added at once is small. *)
LEMMA Small ==
    ASSUME NEW m \in Sizes, NEW n \in Steps
    PROVE  m \in Nat \ {0} /\ n \in Nat \ {0} /\ MaxDrift \in Nat /\ Half \in Nat /\ MaxDrift + n + m < Half
BY ClockAssumption DEF Sizes

LEMMA SizeSmall ==
    ASSUME NEW m \in Sizes
    PROVE  m \in Nat \ {0} /\ m < Half /\ MaxDrift + m < Half
<1>1. PICK n \in Steps : TRUE
  BY ClockAssumption
<1>2. QED
  BY <1>1, Small, ClockAssumption

-----------------------------------------------------------------------------
(* The frames move on: every count is as much less ahead of them. *)
LEMMA Moves ==
    ASSUME ClockInv, NEW m \in Sizes, NEW c \in Consumers, Add(c, m)
    PROVE  /\ frames' \in Frames
           /\ GoalAhead' = GoalAhead - m /\ GoalAhead' >= - MaxDrift
           /\ AudioAhead >= GoalAhead => AudioAhead' = AudioAhead - m
           /\ TargetAhead >= GoalAhead => TargetAhead' = TargetAhead - m
<1> USE DEF ClockInv, ClockTypeOK
<1>1. frames' = Plus(frames, m) /\ GoalAhead - m >= - MaxDrift
  BY DEF Add, GoalAhead
<1>2. UNCHANGED <<goalpost, audioFrames, target>>
  BY DEF Add, post, machine
<1>3. m \in Nat /\ m < Half /\ MaxDrift < Half /\ MaxDrift \in Nat /\ Half \in Nat
  BY SizeSmall, ClockAssumption
<1>4. frames' \in Frames
  BY <1>1, <1>3, PlusType
<1>5. GoalAhead \in Int /\ AudioAhead \in Int /\ TargetAhead \in Int
  BY AheadType DEF GoalAhead, AudioAhead, TargetAhead
<1>6. GoalAhead' = GoalAhead - m
  <2>1. Ahead(goalpost, frames) - m >= - Half
    BY <1>1, <1>3, <1>5 DEF GoalAhead
  <2>2. QED
    BY <2>1, <1>1, <1>2, <1>3, AheadPlus DEF GoalAhead
<1>7. ASSUME AudioAhead >= GoalAhead PROVE AudioAhead' = AudioAhead - m
  <2>1. Ahead(audioFrames, frames) - m >= - Half
    BY <1>1, <1>3, <1>5, <1>7 DEF AudioAhead
  <2>2. QED
    BY <2>1, <1>1, <1>2, <1>3, AheadPlus DEF AudioAhead
<1>8. ASSUME TargetAhead >= GoalAhead PROVE TargetAhead' = TargetAhead - m
  <2>1. Ahead(target, frames) - m >= - Half
    BY <1>1, <1>3, <1>5, <1>8 DEF TargetAhead
  <2>2. QED
    BY <2>1, <1>1, <1>2, <1>3, AheadPlus DEF TargetAhead
<1>9. QED
  BY <1>1, <1>4, <1>5, <1>6, <1>7, <1>8, <1>3

LEMMA AddStep ==
    ASSUME ClockInv, NEW m \in Sizes, NEW c \in Consumers, Add(c, m)
    PROVE  ClockInv'
<1>0. UNCHANGED <<post, settings, main, machine>>
  BY DEF Add
<1>1. UNCHANGED <<goalpost, previousGoalpost, moved, active, fallback, nullSync, running,
                  main, target, audioFrames, since, gaveUp>>
  BY <1>0 DEF post, settings, machine
<1>2. /\ GoalAhead \in Int /\ AudioAhead \in Int /\ TargetAhead \in Int
      /\ m \in Nat /\ m > 0
  BY AheadType, SizeSmall DEF GoalAhead, AudioAhead, TargetAhead, ClockInv, ClockTypeOK
<1>3. /\ adding' = [adding EXCEPT ![c] = frames] /\ c \in active /\ adding[c] = None
      /\ Counts(c) /\ frames' = Plus(frames, m)
  BY DEF Add
<1>4. ClockTypeOK'
  BY <1>1, <1>3, Moves DEF ClockInv, ClockTypeOK
<1>5. DriftInv'
  BY Moves DEF DriftInv
<1>6. IdleInv'
  BY <1>1, <1>2, Moves DEF IdleInv, ClockInv, ClockTypeOK, Frames
<1>7. ASSUME TargetInv, TargetAhead >= GoalAhead PROVE TargetInv'
  <2>1. PICK n \in Steps : TargetAhead <= MaxDrift + n /\ (gaveUp = 0 => TargetAhead <= n)
    BY <1>7 DEF TargetInv
  <2>2. TargetAhead' = TargetAhead - m
    BY <1>7, Moves
  <2>3. n \in Nat /\ MaxDrift \in Nat
    BY ClockAssumption
  <2>4. TargetAhead' <= MaxDrift + n /\ (gaveUp' = 0 => TargetAhead' <= n)
    BY <2>1, <2>2, <2>3, <1>1, <1>2
  <2>5. QED
    BY <2>4 DEF TargetInv
<1>8. AskInv'
  BY <1>1, <1>2, <1>7, Moves DEF AskInv, ClockInv
<1>9. WaitInv'
  BY <1>1, <1>2, <1>7, Moves DEF WaitInv, ClockInv, GoalAhead, TargetAhead
<1>10. ASSUME main # "reinit" PROVE \A d \in Consumers : d # c => adding[d] = None
  BY <1>3, <1>10 DEF ClockInv, ConsumerInv, ActiveInv, Counts, Consumers, Started, Device,
                   NullThread, ClockTypeOK
<1>11. ConsumerInv'
  <2> SUFFICES ASSUME main # "reinit"
               PROVE  /\ \A d \in Consumers : adding'[d] # None =>
                            \E k \in Sizes : frames' = Plus(adding'[d], k)
                      /\ adding'[NullThread] # None => nullSync = 1
                      /\ adding'[Device] # None => nullSync = 0
    BY <1>1 DEF ConsumerInv
  <2>1. adding' \in [Consumers -> Frames \cup {None}] /\ adding'[c] = frames
        /\ \A d \in Consumers : d # c => adding'[d] = None
    BY <1>3, <1>10 DEF ClockInv, ClockTypeOK
  <2>2. \A d \in Consumers : adding'[d] # None => \E k \in Sizes : frames' = Plus(adding'[d], k)
    BY <2>1, <1>3
  <2>3. c = Device => nullSync = 0
    BY <1>3 DEF Counts, Device, NullThread
  <2>4. c = NullThread => nullSync = 1
    BY <1>3 DEF ClockInv, ActiveInv, Started, Device, NullThread, ClockTypeOK
  <2>5. QED
    BY <2>1, <2>2, <2>3, <2>4 DEF Consumers, Device, NullThread
<1>12. ActiveInv'
  BY <1>1 DEF ActiveInv, ClockInv, Started
<1>13. QED
  BY <1>4, <1>5, <1>6, <1>8, <1>9, <1>11, <1>12 DEF ClockInv
-----------------------------------------------------------------------------
(* A consumer that finds a goal in front of it reached: it was. *)
LEMMA ReachedIsReached ==
    ASSUME ClockInv, NEW c \in Consumers, adding[c] # None, Reached(c)
    PROVE  main = "waiting" /\ GoalAhead <= 0
<1>1. main = "waiting"
  <2>1. main \notin {"run", "tail", "reinit", "decided", "loaded"}
    BY DEF Reached, ClockInv, IdleInv, AskInv
  <2>2. QED
    BY <2>1 DEF ClockInv, ClockTypeOK
<1>2. PICK m \in Sizes : frames = Plus(adding[c], m)
  BY <1>1 DEF ClockInv, ConsumerInv
<1>3. PICK n \in Steps : TargetAhead <= MaxDrift + n
  BY <1>1 DEF ClockInv, WaitInv, TargetInv
<1>4. GoalAhead = TargetAhead
  BY <1>1 DEF ClockInv, WaitInv, GoalAhead, TargetAhead
<1>5. goalpost \in Frames /\ adding[c] \in Frames /\ frames \in Frames
  BY DEF ClockInv, ClockTypeOK
<1>6. /\ m \in Nat /\ m > 0 /\ n \in Nat /\ MaxDrift \in Nat /\ Half \in Nat
      /\ MaxDrift + n + m < Half /\ m < Half
  BY Small, SizeSmall
<1>7. GoalAhead \in Int /\ GoalAhead >= - MaxDrift
  BY <1>5, AheadType DEF GoalAhead, ClockInv, DriftInv
<1>8. Ahead(goalpost, adding[c]) <= 0
  BY DEF Reached
<1>9. CASE Ahead(goalpost, adding[c]) - m >= - Half
  <2>1. GoalAhead = Ahead(goalpost, adding[c]) - m
    BY <1>2, <1>5, <1>6, <1>9, AheadPlus DEF GoalAhead
  <2>2. QED
    BY <2>1, <1>1, <1>5, <1>6, <1>8, AheadType
<1>10. CASE ~(Ahead(goalpost, adding[c]) - m >= - Half)
  <2>1. GoalAhead = Ahead(goalpost, adding[c]) - m + Wrap
    BY <1>2, <1>5, <1>6, <1>10, ClockAssumption DEF GoalAhead, Ahead, Plus, Frames, Wrap
  <2>2. Ahead(goalpost, adding[c]) >= - Half /\ Ahead(goalpost, adding[c]) \in Int
    BY <1>5, AheadType
  <2>3. FALSE
    BY <2>1, <2>2, <1>3, <1>4, <1>6, <1>7 DEF Wrap
  <2>4. QED
    BY <2>3
<1>11. QED
  BY <1>9, <1>10

LEMMA CheckStep ==
    ASSUME ClockInv, NEW c \in Consumers, Check(c)
    PROVE  ClockInv'
<1>1. /\ UNCHANGED <<goalpost, frames, active, fallback, nullSync, running,
                      main, target, audioFrames, since, gaveUp>>
      /\ adding[c] # None /\ adding' = [adding EXCEPT ![c] = None]
      /\ previousGoalpost' = IF Reached(c) THEN goalpost ELSE previousGoalpost
      /\ moved' = IF Reached(c) THEN 1 ELSE moved
  BY DEF Check, settings, machine
<1>2. Reached(c) => main = "waiting" /\ GoalAhead <= 0
  BY <1>1, ReachedIsReached
<1>3. GoalAhead' = GoalAhead /\ AudioAhead' = AudioAhead /\ TargetAhead' = TargetAhead
  BY <1>1 DEF GoalAhead, AudioAhead, TargetAhead
<1>4. ClockTypeOK'
  BY <1>1 DEF ClockInv, ClockTypeOK
<1>5. DriftInv' /\ (TargetInv => TargetInv')
  BY <1>1, <1>3 DEF ClockInv, DriftInv, TargetInv
<1>6. IdleInv'
  BY <1>1, <1>2, <1>3 DEF ClockInv, IdleInv
<1>7. AskInv'
  BY <1>1, <1>2, <1>3, <1>5 DEF ClockInv, AskInv
<1>8. WaitInv'
  BY <1>1, <1>2, <1>3, <1>5 DEF ClockInv, WaitInv
<1>9. ConsumerInv'
  <2>1. adding' \in [Consumers -> Frames \cup {None}] /\ adding'[c] = None
        /\ \A d \in Consumers : d # c => adding'[d] = adding[d]
    BY <1>1 DEF ClockInv, ClockTypeOK
  <2>2. QED
    BY <2>1, <1>1 DEF ClockInv, ConsumerInv, Consumers
<1>10. ActiveInv'
  BY <1>1 DEF ActiveInv, ClockInv, Started
<1>11. QED
  BY <1>4, <1>5, <1>6, <1>7, <1>8, <1>9, <1>10 DEF ClockInv

-----------------------------------------------------------------------------
(* The emulation thread. *)

LEMMA UpdateStep ==
    ASSUME ClockInv, NEW n \in Steps, Update(n)
    PROVE  ClockInv'
<1> DEFINE s == Plus(since, n)
           t == Plus(audioFrames, s)
           diff == Ahead(t, frames)
<1>1. /\ main \in {"run", "tail"}
      /\ UNCHANGED <<frames, goalpost, previousGoalpost, moved, adding, active, fallback,
                     nullSync, running>>
  BY DEF Update, Executes, post, settings
<1>2. /\ previousGoalpost = goalpost /\ GoalAhead <= AudioAhead /\ AudioAhead <= 0
      /\ since <= MaxDrift /\ (gaveUp = 0 => since + AudioAhead <= 0)
      /\ GoalAhead >= - MaxDrift
  BY <1>1 DEF ClockInv, IdleInv, DriftInv
<1>3. /\ GoalAhead \in Int /\ AudioAhead \in Int /\ since \in Nat /\ n \in Nat /\ n > 0
      /\ MaxDrift \in Nat /\ Half \in Nat /\ MaxDrift + n < Half
  <2>1. PICK m \in Sizes : TRUE
    BY DEF Sizes
  <2>2. QED
    BY <2>1, Small, AheadType DEF ClockInv, ClockTypeOK, GoalAhead, AudioAhead, Frames
<1>4. s = since + n /\ s < Half /\ s \in Frames /\ s \in Nat
  BY <1>2, <1>3 DEF Plus, Frames, Wrap
<1>5. audioFrames \in Frames /\ frames \in Frames
  BY DEF ClockInv, ClockTypeOK
<1>6. t \in Frames
  BY <1>4, <1>5, PlusType
<1>7. diff = AudioAhead + s
  <2>1. Ahead(audioFrames, frames) + s < Half
    BY <1>2, <1>3, <1>4 DEF AudioAhead
  <2>2. QED
    BY <2>1, <1>4, <1>5, PlusAhead DEF AudioAhead
<1>8. GoalAhead' = GoalAhead
  BY <1>1 DEF GoalAhead
<1>9. DriftInv' /\ ConsumerInv' /\ ActiveInv'
  <2>1. main # "reinit" /\ main' # "reinit"
    BY <1>1 DEF Update
  <2>2. QED
    BY <1>1, <1>2, <1>8, <2>1 DEF DriftInv, ClockInv, ConsumerInv, ActiveInv, Started
<1>10. CASE diff > 0
  <2>1. /\ main' = "decided" /\ target' = t /\ since' = 0
        /\ audioFrames' = audioFrames /\ gaveUp' = gaveUp
    BY <1>10 DEF Update
  <2>2. ClockTypeOK'
    BY <1>1, <1>3, <1>6, <2>1 DEF ClockInv, ClockTypeOK, Frames, Wrap
  <2>3. TargetAhead' = diff
    BY <1>1, <2>1 DEF TargetAhead
  <2>4. diff <= MaxDrift + n /\ (gaveUp = 0 => diff <= n) /\ GoalAhead < diff
    BY <1>2, <1>3, <1>4, <1>7, <1>10
  <2>5. TargetInv'
    BY <2>1, <2>3, <2>4 DEF TargetInv
  <2>6. AskInv'
    BY <1>1, <1>2, <1>3, <1>8, <2>1, <2>3, <2>4, <2>5 DEF AskInv
  <2>7. IdleInv' /\ WaitInv'
    BY <2>1 DEF IdleInv, WaitInv
  <2>8. QED
    BY <1>9, <2>2, <2>6, <2>7 DEF ClockInv
<1>11. CASE ~(diff > 0)
  <2>1. /\ main' = "run" /\ since' = s /\ target' = target
        /\ audioFrames' = IF diff < - Behind THEN frames ELSE audioFrames
        /\ gaveUp' = IF diff < - Behind THEN 1 ELSE gaveUp
    BY <1>11 DEF Update
  <2>2. ClockTypeOK'
    BY <1>1, <1>4, <1>5, <2>1 DEF ClockInv, ClockTypeOK
  <2>3. s <= MaxDrift /\ s + AudioAhead <= 0
    BY <1>2, <1>3, <1>4, <1>7, <1>11
  <2>4. ASSUME diff < - Behind PROVE IdleInv'
    <3>1. AudioAhead' = 0
      BY <1>1, <1>5, <2>1, <2>4, AheadSelf DEF AudioAhead
    <3>2. GoalAhead' <= AudioAhead' /\ AudioAhead' <= 0 /\ gaveUp' = 1
      BY <3>1, <1>2, <1>3, <1>8, <2>1, <2>4
    <3>3. QED
      BY <3>2, <1>1, <1>2, <2>1, <2>3 DEF IdleInv
  <2>5. ASSUME ~(diff < - Behind) PROVE IdleInv'
    <3>1. AudioAhead' = AudioAhead
      BY <1>1, <2>1, <2>5 DEF AudioAhead
    <3>2. QED
      BY <3>1, <1>1, <1>2, <1>8, <2>1, <2>3 DEF IdleInv
  <2>6. IdleInv'
    BY <2>4, <2>5
  <2>7. AskInv' /\ WaitInv'
    BY <2>1 DEF AskInv, WaitInv
  <2>8. QED
    BY <1>9, <2>2, <2>6, <2>7 DEF ClockInv
<1>12. QED
  BY <1>10, <1>11

LEMMA LoadStep == ASSUME ClockInv, Load PROVE ClockInv'
<1>1. /\ main = "decided" /\ main' = "loaded" /\ moved' = 0
      /\ UNCHANGED <<frames, goalpost, previousGoalpost, adding, active, fallback,
                     nullSync, running, target, audioFrames, since, gaveUp>>
  BY DEF Load, settings, machine
<1>2. ClockTypeOK'
  BY <1>1 DEF ClockInv, ClockTypeOK
<1>3. GoalAhead' = GoalAhead /\ TargetAhead' = TargetAhead
  BY <1>1 DEF GoalAhead, TargetAhead
<1>4. AskInv'
  BY <1>1, <1>3 DEF ClockInv, AskInv, TargetInv
<1>5. DriftInv' /\ IdleInv' /\ WaitInv' /\ ConsumerInv' /\ ActiveInv'
  BY <1>1, <1>3 DEF ClockInv, DriftInv, IdleInv, WaitInv, ConsumerInv, ActiveInv, Started
<1>6. QED
  BY <1>2, <1>4, <1>5 DEF ClockInv

LEMMA StoreStep == ASSUME ClockInv, Store PROVE ClockInv'
<1>1. /\ main = "loaded" /\ main' = "waiting" /\ goalpost' = target
      /\ UNCHANGED <<frames, previousGoalpost, moved, adding, active, fallback,
                     nullSync, running, target, audioFrames, since, gaveUp>>
  BY DEF Store, settings, machine
<1>2. ClockTypeOK'
  BY <1>1 DEF ClockInv, ClockTypeOK
<1>3. GoalAhead' = TargetAhead /\ TargetAhead' = TargetAhead
  BY <1>1 DEF GoalAhead, TargetAhead
<1>4. GoalAhead \in Int /\ TargetAhead \in Int
  BY AheadType DEF ClockInv, ClockTypeOK, GoalAhead, TargetAhead
<1>5. GoalAhead < TargetAhead /\ moved = 0 /\ previousGoalpost = goalpost /\ since = 0 /\ TargetInv
  BY <1>1 DEF ClockInv, AskInv
<1>6. goalpost' # previousGoalpost'
  BY <1>1, <1>4, <1>5 DEF GoalAhead, TargetAhead
<1>7. WaitInv'
  BY <1>1, <1>3, <1>5, <1>6 DEF WaitInv, TargetInv
<1>8. DriftInv'
  BY <1>3, <1>4, <1>5, ClockAssumption DEF ClockInv, DriftInv
<1>9. IdleInv' /\ AskInv' /\ ConsumerInv' /\ ActiveInv'
  BY <1>1 DEF ClockInv, IdleInv, AskInv, ConsumerInv, ActiveInv, Started
<1>10. QED
  BY <1>2, <1>7, <1>8, <1>9 DEF ClockInv

LEMMA WakeStep == ASSUME ClockInv, Wake PROVE ClockInv'
<1>1. /\ main = "waiting" /\ moved = 1 /\ main' = "run"
      /\ audioFrames' = target /\ gaveUp' = 0 /\ target' = 0
      /\ UNCHANGED <<frames, goalpost, previousGoalpost, moved, adding, active, fallback,
                     nullSync, running, since>>
  BY DEF Wake, post, settings
<1>2. ClockTypeOK'
  BY <1>1, ClockAssumption DEF ClockInv, ClockTypeOK, Frames, Wrap
<1>3. goalpost = target /\ since = 0 /\ previousGoalpost = goalpost /\ GoalAhead <= 0
  BY <1>1 DEF ClockInv, WaitInv
<1>4. GoalAhead' = GoalAhead /\ AudioAhead' = GoalAhead /\ GoalAhead \in Int
  BY <1>1, <1>3, AheadType DEF GoalAhead, AudioAhead, ClockInv, ClockTypeOK
<1>5. IdleInv'
  BY <1>1, <1>3, <1>4, ClockAssumption DEF IdleInv
<1>6. DriftInv' /\ AskInv' /\ WaitInv' /\ ConsumerInv' /\ ActiveInv'
  BY <1>1, <1>4 DEF ClockInv, DriftInv, AskInv, WaitInv, ConsumerInv, ActiveInv, Started
<1>7. QED
  BY <1>2, <1>5, <1>6 DEF ClockInv
-----------------------------------------------------------------------------
(* Restarts of the machine, and what starts and stops the consumers. *)

LEMMA EndBlockStep == ASSUME ClockInv, EndBlock PROVE ClockInv'
<1>1. /\ main = "tail" /\ main' = "run"
      /\ UNCHANGED <<frames, goalpost, previousGoalpost, moved, adding, active, fallback,
                     nullSync, running, target, audioFrames, since, gaveUp>>
  BY DEF EndBlock, post, settings, machine
<1>2. ClockTypeOK'
  BY <1>1 DEF ClockInv, ClockTypeOK
<1>3. QED
  BY <1>1, <1>2 DEF ClockInv, DriftInv, IdleInv, AskInv, WaitInv, ConsumerInv, ActiveInv,
                    Started, GoalAhead, AudioAhead

LEMMA RestartStep == ASSUME ClockInv, Restart PROVE ClockInv'
<1>1. /\ main = "run" /\ audioFrames' = frames /\ since' = 0 /\ gaveUp' = 0
      /\ UNCHANGED <<frames, goalpost, previousGoalpost, moved, adding, active, fallback,
                     nullSync, running, target, main>>
  BY DEF Restart, post, settings
<1>2. ClockTypeOK'
  BY <1>1, ClockAssumption DEF ClockInv, ClockTypeOK, Frames, Wrap
<1>3. GoalAhead' = GoalAhead /\ AudioAhead' = 0
  BY <1>1, AheadSelf DEF GoalAhead, AudioAhead, ClockInv, ClockTypeOK
<1>4. GoalAhead <= 0 /\ previousGoalpost = goalpost
  <2>1. GoalAhead <= AudioAhead /\ AudioAhead <= 0 /\ previousGoalpost = goalpost
    BY <1>1 DEF ClockInv, IdleInv
  <2>2. GoalAhead \in Int /\ AudioAhead \in Int
    BY AheadType DEF GoalAhead, AudioAhead, ClockInv, ClockTypeOK
  <2>3. QED
    BY <2>1, <2>2
<1>5. IdleInv'
  BY <1>1, <1>3, <1>4, ClockAssumption DEF IdleInv
<1>6. DriftInv' /\ AskInv' /\ WaitInv' /\ ConsumerInv' /\ ActiveInv'
  BY <1>1, <1>3 DEF ClockInv, DriftInv, AskInv, WaitInv, ConsumerInv, ActiveInv, Started
<1>7. QED
  BY <1>2, <1>5, <1>6 DEF ClockInv

(* What the control actions share: the clock itself stands still, and the  *)
(* emulation thread stays out of a wait.                                   *)
LEMMA Still ==
    ASSUME ClockInv, UNCHANGED <<frames, goalpost, previousGoalpost, moved, adding, machine>>,
           main \in {"run", "tail", "reinit"}, main' \in {"run", "tail", "reinit"}
    PROVE  DriftInv' /\ IdleInv' /\ AskInv' /\ WaitInv'
<1>1. UNCHANGED <<target, audioFrames, since, gaveUp>>
  BY DEF machine
<1>2. GoalAhead' = GoalAhead /\ AudioAhead' = AudioAhead
  BY <1>1 DEF GoalAhead, AudioAhead
<1>3. QED
  BY <1>1, <1>2 DEF ClockInv, DriftInv, IdleInv, AskInv, WaitInv

LEMMA ResumeStep == ASSUME ClockInv, ResumeExecution PROVE ClockInv'
<1>1. /\ main = "run" /\ main' = "run" /\ running' = 1
      /\ UNCHANGED <<frames, goalpost, previousGoalpost, moved, adding, machine, nullSync>>
      /\ fallback' \in {0, 1} /\ active' \subseteq Consumers
      /\ active' = Started \/ (fallback' = 1 /\ active' = Started \ {Device})
  BY DEF ResumeExecution, post, Started, Consumers
<1>2. DriftInv' /\ IdleInv' /\ AskInv' /\ WaitInv'
  BY <1>1, Still
<1>3. ClockTypeOK'
  BY <1>1 DEF ClockInv, ClockTypeOK, machine
<1>4. ConsumerInv'
  BY <1>1 DEF ClockInv, ConsumerInv
<1>5. ActiveInv'
  BY <1>1 DEF ActiveInv, Started
<1>6. QED
  BY <1>2, <1>3, <1>4, <1>5 DEF ClockInv

LEMMA StopStep ==
    ASSUME ClockInv, Stop, main = "run", main' \in {"run", "tail"}
    PROVE  ClockInv'
<1>1. /\ running' = 0 /\ active' = {}
      /\ UNCHANGED <<frames, goalpost, previousGoalpost, moved, adding, machine, nullSync, fallback>>
  BY DEF Stop, post
<1>2. DriftInv' /\ IdleInv' /\ AskInv' /\ WaitInv'
  BY <1>1, Still
<1>3. ClockTypeOK'
  BY <1>1 DEF ClockInv, ClockTypeOK, machine
<1>4. ConsumerInv' /\ ActiveInv'
  BY <1>1 DEF ClockInv, ConsumerInv, ActiveInv
<1>5. QED
  BY <1>2, <1>3, <1>4 DEF ClockInv

LEMMA ChangeSettingsStep == ASSUME ClockInv, ChangeSettings PROVE ClockInv'
<1>1. /\ main = "run" /\ main' = "reinit" /\ nullSync' \in {0, 1}
      /\ UNCHANGED <<frames, goalpost, previousGoalpost, moved, adding, machine, active,
                     fallback, running>>
  BY DEF ChangeSettings, post
<1>2. DriftInv' /\ IdleInv' /\ AskInv' /\ WaitInv'
  BY <1>1, Still
<1>3. ClockTypeOK'
  BY <1>1 DEF ClockInv, ClockTypeOK, machine
<1>4. ConsumerInv' /\ ActiveInv'
  BY <1>1 DEF ConsumerInv, ActiveInv
<1>5. QED
  BY <1>2, <1>3, <1>4 DEF ClockInv

LEMMA ReinitStep == ASSUME ClockInv, Reinit PROVE ClockInv'
<1>1. /\ main = "reinit" /\ main' = "run" /\ adding = [c \in Consumers |-> None]
      /\ UNCHANGED <<frames, goalpost, previousGoalpost, moved, adding, machine, nullSync, running>>
      /\ fallback' \in {0, 1} /\ active' \subseteq Consumers
      /\ \/ active' = (IF running = 1 THEN Started ELSE {})
         \/ running = 1 /\ active' = {} /\ fallback' = 1
  BY DEF Reinit, post, Started, Consumers
<1>2. DriftInv' /\ IdleInv' /\ AskInv' /\ WaitInv'
  BY <1>1, Still
<1>3. ClockTypeOK'
  BY <1>1 DEF ClockInv, ClockTypeOK, machine
<1>4. ConsumerInv'
  BY <1>1 DEF ConsumerInv, Consumers, Device, NullThread
<1>5. ActiveInv'
  BY <1>1 DEF ActiveInv, Started
<1>6. QED
  BY <1>2, <1>3, <1>4, <1>5 DEF ClockInv

-----------------------------------------------------------------------------
LEMMA ClockInvInit == Init => ClockInv
<1> SUFFICES ASSUME ClockInit PROVE ClockInv
  BY DEF Init
<1>1. ClockTypeOK
  <2>1. 0 \in Frames
    BY SizeSmall, ClockAssumption DEF Sizes, Frames, Wrap
  <2>2. adding \in [Consumers -> Frames \cup {None}]
    BY DEF ClockInit
  <2>3. QED
    BY <2>1, <2>2 DEF ClockInit, ClockTypeOK
<1>2. GoalAhead = 0 /\ AudioAhead = 0
  BY <1>1, AheadSelf DEF ClockInit, ClockTypeOK, GoalAhead, AudioAhead
<1>3. DriftInv /\ IdleInv /\ AskInv /\ WaitInv
  BY <1>2, ClockAssumption DEF ClockInit, DriftInv, IdleInv, AskInv, WaitInv
<1>4. ConsumerInv /\ ActiveInv
  BY DEF ClockInit, ConsumerInv, ActiveInv, Consumers, Device, NullThread
<1>5. QED
  BY <1>1, <1>3, <1>4 DEF ClockInv

LEMMA ClockInvStutter == ASSUME ClockInv, UNCHANGED clockVars PROVE ClockInv'
<1>1. UNCHANGED <<frames, goalpost, previousGoalpost, moved, adding, active, fallback,
                  nullSync, running, main, target, audioFrames, since, gaveUp>>
  BY DEF clockVars, post, settings, machine
<1>2. QED
  BY <1>1 DEF ClockInv, ClockTypeOK, DriftInv, IdleInv, AskInv, WaitInv, TargetInv,
              ConsumerInv, ActiveInv, Started, GoalAhead, AudioAhead, TargetAhead

LEMMA ClockInvNext == ClockInv /\ [Next]_vars => ClockInv'
<1> SUFFICES ASSUME ClockInv, [Next]_vars PROVE ClockInv'
  OBVIOUS
<1>1. ASSUME NEW n \in Chunks, Callback(n) PROVE ClockInv'
  BY <1>1, AddStep, ClockInvStutter DEF Callback, Sizes, Consumers
<1>2. CASE Tick
  BY <1>2, AddStep DEF Tick, Sizes, Consumers
<1>3. ASSUME NEW c \in Consumers, CheckGoal(c) PROVE ClockInv'
  BY <1>3, CheckStep DEF CheckGoal
<1>4. CASE Emulation
  BY <1>4, UpdateStep, LoadStep, StoreStep, WakeStep, EndBlockStep DEF Emulation, Emulate
<1>5. CASE UserInterface
  <2>1. ASSUME PauseExecution \/ GuestBreak PROVE ClockInv'
    BY <2>1, StopStep DEF PauseExecution, GuestBreak
  <2>2. QED
    BY <1>5, <2>1, RestartStep, ResumeStep, ChangeSettingsStep, ReinitStep
       DEF UserInterface, Control
<1>6. CASE Mixing \/ SaveOrLoad \/ Saved
  BY <1>6, ClockInvStutter DEF Mixing, SaveOrLoad, Saved
<1>7. CASE Loaded
  BY <1>7, RestartStep DEF Loaded
<1>8. CASE UNCHANGED vars
  BY <1>8, ClockInvStutter DEF vars
<1>9. QED
  BY <1>1, <1>2, <1>3, <1>4, <1>5, <1>6, <1>7, <1>8 DEF Next

THEOREM ClockCorrect == Spec => []ClockInv
BY ClockInvInit, ClockInvNext, PTL DEF Spec

(* A goal that is waited for is never taken for the one before it, however *)
(* the counters wrap: advanceFrames' test of the previous goal hides none. *)
THEOREM GoalIsFresh == Spec => []GoalFresh
<1>1. ClockInv => GoalFresh
  BY DEF ClockInv, WaitInv, GoalFresh
<1>2. QED
  BY <1>1, ClockCorrect, PTL

(* The emulation thread is woken when its own goal was reached, not before.*)
THEOREM WakesOnGoal == Spec => []NotEarly
<1>1. ClockInv => NotEarly
  BY DEF ClockInv, WaitInv, NotEarly, GoalAhead
<1>2. QED
  BY <1>1, ClockCorrect, PTL

(* It never waits for longer than what it emulated since the last update.  *)
THEOREM WaitsAreShort == Spec => []ShortWaits
<1>1. ClockInv => ShortWaits
  BY DEF ClockInv, AskInv, WaitInv, TargetInv, ShortWaits, TargetAhead
<1>2. QED
  BY <1>1, ClockCorrect, PTL

(* One thread counts frames while the machine runs, none while it pauses.  *)
THEOREM OneThreadCounts == Spec => []OneClock
<1>1. ASSUME ClockInv, main # "reinit", running = 0 PROVE Clocks = {}
  BY <1>1 DEF ClockInv, ActiveInv, Clocks
<1>2. ASSUME ClockInv, main # "reinit", running = 1
      PROVE  (\E c \in Consumers : Clocks = {c}) \/ (fallback = 1 /\ Clocks = {})
  <2>1. nullSync \in {0, 1}
    BY <1>2 DEF ClockInv, ClockTypeOK
  <2>2. CASE active = Started /\ nullSync = 0
    <3>1. Clocks = {Device}
      BY <2>2 DEF Clocks, Counts, Started
    <3>2. QED
      BY <3>1 DEF Consumers
  <2>3. CASE (active = Started \/ active = Started \ {Device}) /\ nullSync = 1
    <3>1. Clocks = {NullThread}
      BY <2>3 DEF Clocks, Counts, Started, Device, NullThread
    <3>2. QED
      BY <3>1 DEF Consumers
  <2>4. CASE fallback = 1 /\ active = Started \ {Device} /\ nullSync = 0
    BY <2>4 DEF Clocks, Started
  <2>5. CASE fallback = 1 /\ active = {}
    BY <2>5 DEF Clocks
  <2>6. QED
    BY <1>2, <2>1, <2>2, <2>3, <2>4, <2>5 DEF ClockInv, ActiveInv
<1>3. ClockInv => OneClock
  BY <1>1, <1>2 DEF OneClock, ClockInv, ClockTypeOK
<1>4. QED
  BY <1>3, ClockCorrect, PTL

-----------------------------------------------------------------------------
(* The circular buffer and its mixing thread implement StreamQueue.        *)

StreamStep ==
    \/ MixerStep \/ RemoveThread \/ SetupThread
    \/ \E n \in Nat \ {0} : Dequeue(n)
    \/ UNCHANGED streamVars

(* A block the mixer holds is one of its blocks, a sequence of frames that *)
(* is shorter than the buffer.                                             *)
LEMMA BlockFacts ==
    ASSUME NEW b \in Blocks
    PROVE  b \in Seq(Frame) /\ Len(b) \in Nat /\ 0 < Len(b) /\ Len(b) < Cap /\ b # << >>
BY StreamAssumption

LEMMA SlotFacts ==
    ASSUME NEW i \in Nat, i < 2 * Cap PROVE Slot(i) \in Slots
BY StreamAssumption DEF Slot, Slots

LEMMA WrittenType ==
    ASSUME StreamTypeOK, NEW b \in Blocks PROVE Written(b) \in [Slots -> Frame]
<1> SUFFICES ASSUME NEW k \in Slots, Place(k, end) <= Len(b) PROVE b[Place(k, end)] \in Frame
  BY DEF Written, StreamTypeOK
<1>1. Place(k, end) \in 1 .. Len(b)
  BY BlockFacts, StreamAssumption DEF Place, Slots, StreamTypeOK
<1>2. QED
  BY <1>1, BlockFacts

-----------------------------------------------------------------------------
(* The type invariant. *)

LEMMA FedType ==
    ASSUME StreamTypeOK, block \in Blocks, Fits(block), Fed, UNCHANGED endThread
    PROVE  StreamTypeOK'
<1>1. /\ buffer' = Written(block) /\ end' = Slot(end + Len(block))
      /\ size' = size + Len(block) /\ begin' = begin /\ block' = << >>
      /\ mixer' = (IF endThread = 1 THEN "ended" ELSE "mixing") /\ endThread' = endThread
  BY DEF Fed, EnqueueSafe
<1>2. /\ Len(block) \in Nat /\ Len(block) > 0 /\ size + Len(block) < Cap
      /\ end \in Nat /\ end < Cap /\ begin \in Nat /\ begin < Cap /\ size \in Nat
      /\ end = Slot(begin + size) /\ Cap \in Nat
  BY BlockFacts, StreamAssumption DEF StreamTypeOK, Slots, Fits
<1>3. end' = Slot(begin' + size')
  BY <1>1, <1>2 DEF Slot
<1>4. end' \in Slots /\ begin' \in Slots /\ size' \in 0 .. Cap - 1
  BY <1>1, <1>2, SlotFacts DEF StreamTypeOK, Slots
<1>5. buffer' \in [Slots -> Frame]
  BY <1>1, WrittenType
<1>6. QED
  BY <1>1, <1>3, <1>4, <1>5 DEF StreamTypeOK

LEMMA DequeueType ==
    ASSUME StreamTypeOK, NEW n \in Nat \ {0}, Dequeue(n)
    PROVE  StreamTypeOK'
<1>1. /\ begin' = Slot(begin + Taken(n)) /\ size' = size - Taken(n)
      /\ mixer' = (IF mixer = "waiting" THEN "notified" ELSE mixer)
      /\ UNCHANGED <<buffer, end, block, endThread>>
  BY DEF Dequeue
<1>2. /\ end \in Nat /\ end < Cap /\ begin \in Nat /\ begin < Cap /\ size \in Nat
      /\ size < Cap /\ end = Slot(begin + size) /\ Cap \in Nat
      /\ Taken(n) \in Nat /\ Taken(n) <= size
  BY StreamAssumption DEF StreamTypeOK, Slots, Taken
<1>3. end' = Slot(begin' + size')
  BY <1>1, <1>2 DEF Slot
<1>4. begin' \in Slots /\ size' \in 0 .. Cap - 1
  BY <1>1, <1>2, SlotFacts
<1>5. QED
  BY <1>1, <1>3, <1>4 DEF StreamTypeOK

LEMMA StreamTypeInit == StreamInit => StreamTypeOK
<1> SUFFICES ASSUME StreamInit PROVE StreamTypeOK
  OBVIOUS
<1>1. 0 \in Slots /\ Cap \in Nat /\ Cap > 0
  BY StreamAssumption DEF Slots
<1>2. << >> \in Blocks \cup {<< >>}
  OBVIOUS
<1>3. buffer \in [Slots -> Frame]
  BY StreamAssumption DEF StreamInit
<1>4. QED
  BY <1>1, <1>2, <1>3 DEF StreamInit, StreamTypeOK, Slot

LEMMA StreamTypeNext == ASSUME StreamTypeOK, StreamStep PROVE StreamTypeOK'
<1>1. ASSUME Mix PROVE StreamTypeOK'
  <2>1. /\ UNCHANGED <<buffer, begin, end, size, endThread>>
        /\ mixer = "mixing"
        /\ \/ mixer' = "offering" /\ block' \in Blocks
           \/ endThread = 1 /\ mixer' = "ended" /\ block' = block
    BY <1>1 DEF Mix, ring
  <2>2. block' \in Blocks => block' # << >>
    BY BlockFacts
  <2>3. QED
    BY <2>1, <2>2 DEF StreamTypeOK
<1>2. ASSUME Enqueue PROVE StreamTypeOK'
  <2>1. block \in Blocks /\ UNCHANGED endThread
    BY <1>2 DEF Enqueue, StreamTypeOK
  <2>2. CASE Fits(block) /\ Fed
    BY <2>1, <2>2, FedType
  <2>3. CASE mixer' = "waiting" /\ UNCHANGED <<ring, block>>
    BY <1>2, <2>1, <2>3 DEF Enqueue, StreamTypeOK, ring
  <2>4. QED
    BY <1>2, <2>2, <2>3 DEF Enqueue
<1>3. ASSUME TimeOut PROVE StreamTypeOK'
  <2>1. block \in Blocks /\ UNCHANGED endThread /\ mixer = "waiting"
    BY <1>3 DEF TimeOut, StreamTypeOK
  <2>2. CASE Fits(block) /\ Fed
    BY <2>1, <2>2, FedType
  <2>3. CASE /\ mixer' = (IF endThread = 1 THEN "ended" ELSE "offering")
             /\ block' = (IF endThread = 1 THEN << >> ELSE block)
             /\ UNCHANGED ring
    BY <2>1, <2>3 DEF StreamTypeOK, ring
  <2>4. QED
    BY <1>3, <2>2, <2>3 DEF TimeOut
<1>4. ASSUME RemoveThread \/ SetupThread PROVE StreamTypeOK'
  BY <1>4 DEF RemoveThread, SetupThread, StreamTypeOK, ring
<1>5. ASSUME UNCHANGED streamVars PROVE StreamTypeOK'
  BY <1>5 DEF streamVars, ring, StreamTypeOK
<1>6. QED
  BY <1>1, <1>2, <1>3, <1>4, <1>5, DequeueType DEF StreamStep, MixerStep

-----------------------------------------------------------------------------
(* The refinement. *)

LEMMA ContentsType ==
    ASSUME StreamTypeOK
    PROVE  Contents \in Seq(Frame) /\ Len(Contents) = size /\ size \in Nat
<1>1. begin \in Nat /\ begin < Cap /\ size \in Nat /\ size < Cap /\ Cap \in Nat
  BY StreamAssumption DEF StreamTypeOK, Slots
<1>2. ASSUME NEW i \in 1 .. size PROVE buffer[Slot(begin + i - 1)] \in Frame
  <2>1. begin + i - 1 \in Nat /\ begin + i - 1 < 2 * Cap
    BY <1>1
  <2>2. Slot(begin + i - 1) \in Slots
    BY <2>1, SlotFacts
  <2>3. QED
    BY <2>2 DEF StreamTypeOK
<1>3. QED
  BY <1>1, <1>2 DEF Contents

(* What is enqueued ends up behind what is there. *)
LEMMA Appends ==
    ASSUME StreamTypeOK, block \in Blocks, Fits(block), EnqueueSafe
    PROVE  Contents' = Contents \o block
<1>1. /\ buffer' = Written(block) /\ size' = size + Len(block) /\ begin' = begin
  BY DEF EnqueueSafe
<1>2. /\ Len(block) \in Nat /\ Len(block) > 0 /\ size + Len(block) < Cap
      /\ end \in Nat /\ end < Cap /\ begin \in Nat /\ begin < Cap /\ size \in Nat
      /\ end = Slot(begin + size) /\ Cap \in Nat /\ block \in Seq(Frame)
  BY BlockFacts, StreamAssumption DEF StreamTypeOK, Slots, Fits
<1>3. Contents \in Seq(Frame) /\ Len(Contents) = size
  BY ContentsType
<1>4. Contents' = [i \in 1 .. size + Len(block) |-> Written(block)[Slot(begin + i - 1)]]
  BY <1>1 DEF Contents, Slot
<1>5. ASSUME NEW i \in 1 .. size + Len(block)
      PROVE  Written(block)[Slot(begin + i - 1)] = (Contents \o block)[i]
  <2> DEFINE k == Slot(begin + i - 1)
  <2>1. k \in Slots
    BY <1>2, SlotFacts
  <2>2. CASE i <= size
    <3>1. ~(Place(k, end) <= Len(block))
      BY <1>2, <2>2 DEF Place, Slot
    <3>2. Written(block)[k] = buffer[k]
      BY <2>1, <3>1 DEF Written
    <3>3. (Contents \o block)[i] = Contents[i]
      BY <1>2, <1>3, <2>2
    <3>4. Contents[i] = buffer[k]
      BY <1>2, <2>2 DEF Contents
    <3>5. QED
      BY <3>2, <3>3, <3>4
  <2>3. CASE ~(i <= size)
    <3>1. Place(k, end) = i - size
      BY <1>2, <2>3 DEF Place, Slot
    <3>2. Written(block)[k] = block[i - size]
      BY <1>2, <2>1, <3>1 DEF Written
    <3>3. (Contents \o block)[i] = block[i - size]
      BY <1>2, <1>3, <2>3
    <3>4. QED
      BY <3>2, <3>3
  <2>4. QED
    BY <2>2, <2>3
<1>6. Contents \o block = [i \in 1 .. size + Len(block) |-> (Contents \o block)[i]]
  <2> DEFINE c == Contents
  <2> HIDE DEF c
  <2>1. c \in Seq(Frame) /\ Len(c) = size
    BY <1>3 DEF c
  <2>2. c \o block = [i \in 1 .. size + Len(block) |-> (c \o block)[i]]
    <3> DEFINE w == c \o block
    <3>1. w \in Seq(Frame) /\ Len(w) = size + Len(block)
      BY <2>1, <1>2
    <3> HIDE DEF w
    <3>2. w = [i \in 1 .. Len(w) |-> w[i]]
      BY <3>1
    <3>3. QED
      BY <3>1, <3>2 DEF w
  <2>3. QED
    BY <2>2 DEF c
<1>7. QED
  BY <1>4, <1>5, <1>6

(* What is dequeued is what was in front. *)
LEMMA Removes ==
    ASSUME StreamTypeOK, NEW n \in Nat \ {0}, Dequeue(n)
    PROVE  Contents' = SubSeq(Contents, Taken(n) + 1, Len(Contents)) /\ Taken(n) \in 0 .. Len(Contents)
<1>1. begin' = Slot(begin + Taken(n)) /\ size' = size - Taken(n) /\ buffer' = buffer
  BY DEF Dequeue
<1>2. /\ begin \in Nat /\ begin < Cap /\ size \in Nat /\ size < Cap /\ Cap \in Nat
      /\ Taken(n) \in Nat /\ Taken(n) <= size
  BY StreamAssumption DEF StreamTypeOK, Slots, Taken
<1>3. Contents \in Seq(Frame) /\ Len(Contents) = size
  BY ContentsType
<1>4. Contents' = [i \in 1 .. size - Taken(n) |-> buffer[Slot(Slot(begin + Taken(n)) + i - 1)]]
  BY <1>1 DEF Contents, Slot
<1>5. SubSeq(Contents, Taken(n) + 1, Len(Contents))
          = [i \in 1 .. size - Taken(n) |-> Contents[i + Taken(n)]]
  <2> DEFINE c == Contents
           t == Taken(n)
  <2> HIDE DEF c, t
  <2>1. c \in Seq(Frame) /\ Len(c) = size /\ t \in Nat /\ t <= size /\ size \in Nat
    BY <1>2, <1>3 DEF c, t
  <2>2. SubSeq(c, t + 1, Len(c)) = [i \in 1 .. size - t |-> c[i + t]]
    BY <2>1
  <2>3. QED
    BY <2>2 DEF c, t
<1>6. ASSUME NEW i \in 1 .. size - Taken(n)
      PROVE  buffer[Slot(Slot(begin + Taken(n)) + i - 1)] = Contents[i + Taken(n)]
  <2>1. Slot(Slot(begin + Taken(n)) + i - 1) = Slot(begin + (i + Taken(n)) - 1)
    BY <1>2 DEF Slot
  <2>2. i + Taken(n) \in 1 .. size
    BY <1>2
  <2>3. QED
    BY <2>1, <2>2 DEF Contents
<1>7. Contents' = SubSeq(Contents, Taken(n) + 1, Len(Contents))
  BY <1>4, <1>5, <1>6
<1>8. QED
  BY <1>2, <1>3, <1>7

LEMMA SameContents == ASSUME UNCHANGED ring PROVE Contents' = Contents
BY DEF ring, Contents, Slot

LEMMA FedIsPut ==
    ASSUME StreamTypeOK, block \in Blocks, Fits(block), Fed, UNCHANGED endThread
    PROVE  Stream!Put
<1>1. Contents' = Contents \o block
  BY Appends DEF Fed
<1>2. block' = << >> /\ block # << >>
  BY BlockFacts DEF Fed
<1>3. Len(Contents) = size
  BY DEF Contents, StreamTypeOK
<1>4. Len(Contents) + Len(block) < Cap
  BY <1>3, BlockFacts, StreamAssumption DEF Fits, StreamTypeOK
<1>5. QED
  BY <1>1, <1>2, <1>4 DEF Stream!Put

LEMMA StreamStepRefines ==
    ASSUME StreamTypeOK, StreamStep
    PROVE  Stream!Next \/ UNCHANGED <<Contents, block, endThread>>
<1>1. ASSUME Mix PROVE Stream!Offer \/ UNCHANGED <<Contents, block, endThread>>
  <2>1. Contents' = Contents /\ UNCHANGED endThread
    BY <1>1, SameContents DEF Mix
  <2>2. block = << >>
    BY <1>1 DEF Mix, StreamTypeOK
  <2>3. QED
    BY <1>1, <2>1, <2>2 DEF Mix, Stream!Offer
<1>2. ASSUME Enqueue PROVE Stream!Put \/ UNCHANGED <<Contents, block, endThread>>
  <2>1. block \in Blocks /\ UNCHANGED endThread
    BY <1>2 DEF Enqueue, StreamTypeOK
  <2>2. CASE Fits(block) /\ Fed
    BY <2>1, <2>2, FedIsPut
  <2>3. CASE UNCHANGED <<ring, block>>
    BY <2>1, <2>3, SameContents
  <2>4. QED
    BY <1>2, <2>2, <2>3 DEF Enqueue
<1>3. ASSUME TimeOut
      PROVE  Stream!Put \/ Stream!GiveUp \/ UNCHANGED <<Contents, block, endThread>>
  <2>1. block \in Blocks /\ UNCHANGED endThread
    BY <1>3 DEF TimeOut, StreamTypeOK
  <2>2. CASE Fits(block) /\ Fed
    BY <2>1, <2>2, FedIsPut
  <2>3. CASE UNCHANGED ring /\ block' = (IF endThread = 1 THEN << >> ELSE block)
    <3>1. Contents' = Contents /\ block # << >>
      BY <2>1, <2>3, SameContents, BlockFacts
    <3>2. QED
      BY <3>1, <2>1, <2>3 DEF Stream!GiveUp
  <2>4. QED
    BY <1>3, <2>2, <2>3 DEF TimeOut
<1>4. ASSUME RemoveThread \/ SetupThread PROVE Stream!StopStart
  <2>1. Contents' = Contents
    BY <1>4, SameContents DEF RemoveThread, SetupThread
  <2>2. /\ block' = block /\ endThread' \in {0, 1}
        /\ endThread' = 0 => block = << >>
    BY <1>4 DEF RemoveThread, SetupThread, StreamTypeOK
  <2>3. QED
    BY <2>1, <2>2 DEF Stream!StopStart
<1>5. ASSUME NEW n \in Nat \ {0}, Dequeue(n) PROVE Stream!Take
  <2>1. UNCHANGED <<block, endThread>>
    BY <1>5 DEF Dequeue
  <2>2. QED
    BY <1>5, <2>1, Removes DEF Stream!Take
<1>6. ASSUME UNCHANGED streamVars PROVE UNCHANGED <<Contents, block, endThread>>
  BY <1>6, SameContents DEF streamVars
<1>7. QED
  BY <1>1, <1>2, <1>3, <1>4, <1>5, <1>6 DEF StreamStep, MixerStep, Stream!Next

LEMMA StreamInitRefines == StreamInit => Stream!Init
<1> SUFFICES ASSUME StreamInit PROVE Stream!Init
  OBVIOUS
<1>1. Contents = << >>
  BY DEF StreamInit, Contents
<1>2. QED
  BY <1>1 DEF StreamInit, Stream!Init

-----------------------------------------------------------------------------
(* The stream inside the composed system. *)

LEMMA StreamSteps == ASSUME [Next]_vars PROVE StreamStep
<1>1. ASSUME NEW n \in Chunks, Callback(n) PROVE StreamStep
  <2>1. n \in Nat \ {0}
    BY ClockAssumption
  <2>2. QED
    BY <1>1, <2>1 DEF Callback, StreamStep
<1>2. CASE Tick \/ (\E c \in Consumers : CheckGoal(c)) \/ Emulation \/ UserInterface
  BY <1>2 DEF Tick, CheckGoal, Emulation, UserInterface, StreamStep
<1>3. CASE Mixing \/ SaveOrLoad \/ Saved \/ Loaded
  BY <1>3 DEF Mixing, SaveOrLoad, Saved, Loaded, StreamStep
<1>4. CASE UNCHANGED vars
  BY <1>4 DEF vars, StreamStep
<1>5. QED
  BY <1>1, <1>2, <1>3, <1>4 DEF Next

THEOREM StreamTypeCorrect == Spec => []StreamTypeOK
<1>1. Init => StreamTypeOK
  BY StreamTypeInit DEF Init
<1>2. StreamTypeOK /\ [Next]_vars => StreamTypeOK'
  BY StreamSteps, StreamTypeNext
<1>3. QED
  BY <1>1, <1>2, PTL DEF Spec

(* Every variable of the composed system keeps its type.                   *)
THEOREM TypeCorrect == Spec => []TypeOK
<1>1. ClockInv /\ StreamTypeOK => TypeOK
  BY DEF ClockInv, TypeOK
<1>2. QED
  BY <1>1, ClockCorrect, StreamTypeCorrect, PTL

(* The circular buffer and its thread are the queue StreamQueue describes: *)
(* wrapped copies, timeouts and restarts neither lose, repeat nor reorder  *)
(* a frame.                                                                *)
THEOREM StreamImplementsQueue == Spec => StreamSafe
<1>1. Init => Stream!Init
  BY StreamInitRefines DEF Init
<1>2. StreamTypeOK /\ [Next]_vars => [Stream!Next]_<<Contents, block, endThread>>
  BY StreamSteps, StreamStepRefines
<1>3. QED
  BY <1>1, <1>2, StreamTypeCorrect, PTL DEF Spec, StreamSafe, Stream!Spec

(* A mixer asleep on the condition variable has no room for its block, so  *)
(* no notification was lost.                                               *)
THEOREM MixerWaitsForRoom == Spec => []WaitsForRoom
<1>1. Init => WaitsForRoom
  BY DEF Init, StreamInit, WaitsForRoom
<1>2. ASSUME WaitsForRoom, StreamStep PROVE WaitsForRoom'
  <2>1. CASE Mix \/ Enqueue \/ TimeOut
    BY <1>2, <2>1 DEF Mix, Enqueue, TimeOut, Fed, WaitsForRoom, Fits, ring
  <2>2. CASE RemoveThread \/ SetupThread \/ UNCHANGED streamVars
    BY <1>2, <2>2 DEF RemoveThread, SetupThread, streamVars, WaitsForRoom, Fits, ring
  <2>3. ASSUME NEW n \in Nat \ {0}, Dequeue(n) PROVE WaitsForRoom'
    BY <2>3 DEF Dequeue, WaitsForRoom
  <2>4. QED
    BY <1>2, <2>1, <2>2, <2>3 DEF StreamStep, MixerStep
<1>3. QED
  BY <1>1, <1>2, StreamSteps, PTL DEF Spec
=============================================================================
