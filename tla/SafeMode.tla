------------------------------ MODULE SafeMode ------------------------------
(***************************************************************************)
(* detectSafemodeTrigger of xposed_safemode.cpp: at boot, the user asks    *)
(* for Xposed to stay off by pressing one key DETECTION_PRESSES times.     *)
(* Every input device has a queue of presses of the relevant keys; one     *)
(* epoll_wait reports all devices that have some, and one press is read    *)
(* from each.  Releases and other events are read and ignored.             *)
(***************************************************************************)
EXTENDS Integers, Sequences, FiniteSets

CONSTANTS Keys,           \* physical_keycodes, positive numbers
          Device,         \* the devices that are opened, at most MAX_DEVICES
          DetectionPresses,
          MaxPresses      \* bound: presses during the detection

ASSUME KeysAssumption ==
  Keys \subseteq Nat \ {0} /\ DetectionPresses \in Nat \ {0} /\ IsFiniteSet(Device)

VARIABLES
  skipInitialDelay,
  held,           \* the keys held down when the devices are opened
  queued,         \* queued[d]: the presses that can be read from d
  ready,          \* the devices the last epoll_wait reported and that are not read yet
  step, pressedKey, triggerPresses,
  result,         \* what the function returns, once step is "left"
  pressed,        \* history: the presses that were read, the initial one included
  presses

safeVars == <<skipInitialDelay, held, queued, ready, step, pressedKey, triggerPresses, result, pressed, presses>>

SafeInit ==
  /\ skipInitialDelay \in BOOLEAN
  /\ held \in [Device -> SUBSET Keys]
  /\ queued = [d \in Device |-> <<>>] /\ ready = {} /\ step = "open"
  /\ pressedKey = 0 /\ triggerPresses = 0 /\ result = FALSE /\ pressed = <<>> /\ presses = 0

Leave(r) == step' = "left" /\ result' = r /\ ready' = {}

(* openKeyDevices, and the decisions on the keys that are held; no device  *)
(* may be there, and epoll may fail.                                       *)
Open ==
  LET down == {x \in Device \X Keys : x[2] \in held[x[1]]}
      key == IF Cardinality(down) = 1 THEN (CHOOSE x \in down : TRUE)[2] ELSE 0
  IN
  /\ step = "open"
  /\ IF Cardinality(down) > 1 \/ (down = {} /\ skipInitialDelay)
     THEN Leave(FALSE) /\ UNCHANGED <<pressedKey, pressed, triggerPresses>>
     ELSE /\ pressedKey' = key /\ step' = IF key = 0 THEN "initial" ELSE "detect"
          /\ triggerPresses' = IF key = 0 THEN 0 ELSE 1
          /\ pressed' = IF key = 0 THEN <<>> ELSE <<key>>
          /\ UNCHANGED <<ready, result>>
  /\ UNCHANGED <<skipInitialDelay, held, queued, presses>>

OpenFails ==
  /\ step = "open" /\ Leave(FALSE)
  /\ UNCHANGED <<skipInitialDelay, held, queued, pressedKey, triggerPresses, pressed, presses>>

(* The user                                                                *)
Press(d, k) ==
  /\ step \in {"initial", "detect"} /\ presses < MaxPresses
  /\ queued' = [queued EXCEPT ![d] = Append(@, k)] /\ presses' = presses + 1
  /\ UNCHANGED <<skipInitialDelay, held, ready, step, pressedKey, triggerPresses, result, pressed>>

Loops == IF step = "initial" THEN pressedKey = 0 ELSE triggerPresses < DetectionPresses

Poll ==
  /\ step \in {"initial", "detect"} /\ ready = {} /\ Loops
  /\ ready' = {d \in Device : queued[d] # <<>>} /\ ready' # {}
  /\ UNCHANGED <<skipInitialDelay, held, queued, step, pressedKey, triggerPresses, result, pressed, presses>>

(* The time is up, or epoll_wait fails.                                    *)
TimeUp ==
  /\ step \in {"initial", "detect"} /\ ready = {} /\ Loops /\ Leave(FALSE)
  /\ UNCHANGED <<skipInitialDelay, held, queued, pressedKey, triggerPresses, pressed, presses>>

(* One press from one of the devices reported; the loop over them goes on  *)
(* with what the press has made of pressedKey and triggerPresses.          *)
ReadInitial(d) ==
  /\ step = "initial" /\ d \in ready /\ ready' = ready \ {d}
  /\ queued' = [queued EXCEPT ![d] = Tail(@)]
  /\ pressedKey' = Head(queued[d]) /\ pressed' = Append(pressed, Head(queued[d]))
  /\ UNCHANGED <<skipInitialDelay, held, step, triggerPresses, result, presses>>

Started ==
  /\ step = "initial" /\ ready = {} /\ pressedKey # 0
  /\ step' = "detect" /\ triggerPresses' = triggerPresses + 1
  /\ UNCHANGED <<skipInitialDelay, held, queued, ready, pressedKey, result, pressed, presses>>

\* Mutant: another key does not end the detection.
ReadIgnoringOthers(d) ==
  /\ step = "detect" /\ d \in ready /\ ready' = ready \ {d}
  /\ queued' = [queued EXCEPT ![d] = Tail(@)] /\ pressed' = Append(pressed, Head(queued[d]))
  /\ triggerPresses' = IF Head(queued[d]) = pressedKey THEN triggerPresses + 1 ELSE triggerPresses
  /\ UNCHANGED <<step, result, skipInitialDelay, held, pressedKey, presses>>

ReadDetect(d) ==
  LET k == Head(queued[d]) IN
  /\ step = "detect" /\ d \in ready
  /\ queued' = [queued EXCEPT ![d] = Tail(@)] /\ pressed' = Append(pressed, k)
  /\ IF k = pressedKey
     THEN ready' = ready \ {d} /\ triggerPresses' = triggerPresses + 1 /\ UNCHANGED <<step, result>>
     ELSE Leave(FALSE) /\ UNCHANGED triggerPresses
  /\ UNCHANGED <<skipInitialDelay, held, pressedKey, presses>>

Triggered ==
  /\ step = "detect" /\ ready = {} /\ ~Loops /\ Leave(TRUE)
  /\ UNCHANGED <<skipInitialDelay, held, queued, pressedKey, triggerPresses, pressed, presses>>

SafeNext ==
  \/ Open \/ OpenFails \/ Poll \/ TimeUp \/ Started \/ Triggered
  \/ \E d \in Device : ReadInitial(d) \/ ReadDetect(d) \/ \E k \in Keys : Press(d, k)

DetectStep ==
  Open \/ OpenFails \/ Poll \/ TimeUp \/ Started \/ Triggered \/ \E d \in Device : ReadInitial(d) \/ ReadDetect(d)

(* The time runs.                                                          *)
SafeFairness == WF_safeVars(DetectStep)

SafeSpec == SafeInit /\ [][SafeNext]_safeVars /\ SafeFairness

-----------------------------------------------------------------------------
(* Every variable has its type; one poll can take the count past its end   *)
(* by the other devices.                                                   *)
SafeTypeOK ==
  /\ queued \in [Device -> Seq(Keys)] /\ ready \subseteq Device
  /\ step \in {"open", "initial", "detect", "left"} /\ pressedKey \in Keys \cup {0}
  /\ triggerPresses \in 0..DetectionPresses + Cardinality(Device) - 1 /\ pressed \in Seq(Keys)

(* The key was pressed DetectionPresses times in a row, whatever devices   *)
(* the presses came from and however they were polled, when safe mode is   *)
(* triggered; and presses after the first of another key do not trigger.   *)
TriggeredByRow ==
  result => /\ Len(pressed) >= DetectionPresses
            /\ \A i \in Len(pressed) - DetectionPresses + 1..Len(pressed) : pressed[i] = pressedKey

(* The detection comes to an end, however often keys are pressed.          *)
DetectionEnds == step # "open" ~> step = "left"
=============================================================================
