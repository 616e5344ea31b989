------------------------------ MODULE IspProofs ------------------------------
(***************************************************************************)
(* Proofs about Isp, for every set of configured levels and any number of  *)
(* failing library calls.                                                  *)
(***************************************************************************)
EXTENDS Isp, TLAPS

-----------------------------------------------------------------------------
(* Each statement has one place.                                           *)
Place(s) ==
    CASE s = "init" -> 1 [] s = "ldch" -> 2 [] s = "fecDirection" -> 3
      [] s = "fecLevel" -> 4 [] s = "fecEn" -> 5 [] s = "prepare" -> 6
      [] s = "start" -> 7 [] s = "fps" -> 8 [] s = "defog" -> 9
      [] s = "getAttrib" -> 10 [] s = "running" -> 11 [] s = "stop" -> 12
      [] s = "deinit" -> 13

Names == {"init", "ldch", "fecDirection", "fecLevel", "fecEn", "prepare", "start",
          "fps", "defog", "getAttrib", "running", "stop", "deinit"}

(* The program has 13 statements and main is at the one that runs.         *)
LEMMA Places ==
    ASSUME TypeOK, NEW s \in Names, At(s)
    PROVE  at = Place(s) /\ at' = at + 1
<1>1. at \in 1 .. 13 /\ Statements[at] = s /\ at' = at + 1
  BY DEF At, TypeOK, Statements
<1> QED
  BY <1>1 DEF Place, Statements, Names

(* There are 13 of them.                                                   *)
LEMMA Places13 == Len(Statements) = 13
  BY DEF Statements

-----------------------------------------------------------------------------
(* The context, the engine and main's place.                               *)
EngineInv ==
    /\ TypeOK
    /\ at = 1 => engine = "none" /\ ~context /\ ~nullUsed /\ failed = {}
    /\ at \in 2 .. 13 => (context <=> ~Lost)
    /\ at = 14 => ~context /\ (engine = "released" \/ Lost)
    /\ nullUsed => Lost
    /\ at \in 1 .. 13 => engine # "released"
    /\ context => /\ at \in 2 .. 6 => engine = "created"
                  /\ at = 7 => engine = "prepared"
                  /\ at \in 8 .. 12 => engine \in {"prepared", "started"}
                  /\ at = 13 => engine = "stopped" \/ "stop" \in failed

(* Nothing exists at first.                                                *)
LEMMA InitEngine == Init => EngineInv
<1> SUFFICES ASSUME Init PROVE EngineInv
  OBVIOUS
<1>1. ~context /\ context \in BOOLEAN /\ ~nullUsed /\ nullUsed \in BOOLEAN
  BY DEF Init
<1>2. ~Lost
  BY DEF Init, Lost
<1> QED
  BY <1>1, <1>2, Places13 DEF Init, EngineInv, TypeOK

(* The engine stays as it is when settings are told.                       *)
LEMMA TellEngine ==
    ASSUME EngineInv, at' = at + 1, at \in {2, 3, 4, 5, 8, 9, 10, 11},
           NEW req, DOMAIN req \subseteq Settings,
           Guarded(req) \/ Unguarded(req) \/ Skip
    PROVE  EngineInv'
<1> USE Places13 DEF config
<1>1. told' = [s \in Settings |-> told'[s]] /\ failed' \subseteq Calls /\ (Lost' <=> Lost)
  <2>1. CASE Tell(req)
    <3>1. PICK lost \in SUBSET DOMAIN req :
             /\ failed' = failed \cup lost
             /\ told' = [s \in Settings |-> IF s \in DOMAIN req \ lost THEN {req[s]} ELSE told[s]]
      BY <2>1 DEF Tell, MayFail
    <3>2. lost \subseteq Settings /\ {"init", "prepare"} \cap Settings = {}
      BY DEF Settings
    <3> QED
      BY <3>1, <3>2 DEF Lost, Calls, EngineInv, TypeOK
  <2>2. CASE told' = told /\ failed' = failed
    BY <2>2 DEF EngineInv, TypeOK, Lost
  <2> QED
    BY <2>1, <2>2 DEF Guarded, Unguarded, Skip
<1>2. /\ context' = context /\ engine' = engine /\ defog' = defog /\ fec' = fec /\ ldch' = ldch
      /\ nullUsed' = nullUsed \/ (nullUsed' = TRUE /\ ~context)
  BY DEF Guarded, Unguarded, Skip, Tell
<1>3. nullUsed' \in BOOLEAN /\ (nullUsed' => Lost)
  <2>1. (context <=> ~Lost) /\ (nullUsed => Lost) /\ nullUsed \in BOOLEAN
    BY DEF EngineInv, TypeOK
  <2>2. CASE nullUsed' = nullUsed
    BY <2>1, <2>2
  <2>3. CASE nullUsed' = TRUE /\ ~context
    BY <2>1, <2>3
  <2> QED
    BY <1>2, <2>2, <2>3
<1> QED
  BY <1>1, <1>2, <1>3 DEF EngineInv, TypeOK

(* Every statement keeps the relation.                                     *)
LEMMA NextEngine == EngineInv /\ [Next]_vars => EngineInv'
<1> SUFFICES ASSUME EngineInv, [Next]_vars PROVE EngineInv'
  OBVIOUS
<1> USE Places13 DEF config
<1>a. TypeOK
  BY DEF EngineInv
<1>1. CASE Create
  <2>1. at = 1 /\ at' = 2
    BY <1>a, <1>1, Places DEF Create, Place, Names
  <2>2. CASE engine' = "created" /\ context' = TRUE /\ failed' = failed
    BY <1>1, <2>1, <2>2 DEF Create, EngineInv, TypeOK, Lost
  <2>3. CASE failed' = failed \cup {"init"} /\ engine' = engine /\ context' = context
    BY <1>1, <2>1, <2>3 DEF Create, EngineInv, TypeOK, Lost, Calls
  <2> QED
    BY <1>1, <2>2, <2>3 DEF Create, MayFail
<1>2. CASE SetLDCHLevel
  <2>1. at = 2 /\ at' = at + 1
    BY <1>a, <1>2, Places DEF SetLDCHLevel, Place, Names
  <2>2. DOMAIN LdchSettings \subseteq Settings
    BY DEF LdchSettings, Settings
  <2> QED
    BY <1>2, <2>1, <2>2, TellEngine DEF SetLDCHLevel
<1>3. CASE SetFecDirection
  <2>1. at = 3 /\ at' = at + 1
    BY <1>a, <1>3, Places DEF SetFecDirection, Place, Names
  <2>2. DOMAIN [fecDirection |-> "Y"] \subseteq Settings
    BY DEF Settings
  <2> QED
    BY <1>3, <2>1, <2>2, TellEngine DEF SetFecDirection
<1>4. CASE SetFecLevel
  <2>1. at = 4 /\ at' = at + 1
    BY <1>a, <1>4, Places DEF SetFecLevel, Place, Names
  <2>2. DOMAIN [fecLevel |-> FecLevel(fec)] \subseteq Settings
    BY DEF Settings
  <2> QED
    BY <1>4, <2>1, <2>2, TellEngine DEF SetFecLevel
<1>5. CASE SetFecEn
  <2>1. at = 5 /\ at' = at + 1
    BY <1>a, <1>5, Places DEF SetFecEn, Place, Names
  <2>2. DOMAIN [fecEn |-> "on"] \subseteq Settings
    BY DEF Settings
  <2> QED
    BY <1>5, <2>1, <2>2, TellEngine DEF SetFecEn
<1>6. CASE Prepare
  <2>1. at = 6 /\ at' = 7
    BY <1>a, <1>6, Places DEF Prepare, Place, Names
  <2>2. CASE context /\ engine' = "prepared" /\ context' = context /\ failed' = failed
    BY <1>6, <2>1, <2>2 DEF Prepare, EngineInv, TypeOK, Lost
  <2>3. CASE context' = FALSE /\ failed' = failed \cup {"prepare"} /\ engine' = engine
    <3>1. ~context' /\ context' \in BOOLEAN
      BY <2>3
    <3>2. Lost' /\ failed' \subseteq Calls
      BY <2>3 DEF Lost, Calls, EngineInv, TypeOK
    <3> QED
      BY <1>6, <2>1, <2>3, <3>1, <3>2 DEF Prepare, EngineInv, TypeOK
  <2>4. CASE ~context /\ context' = context /\ engine' = engine /\ failed' = failed
    BY <1>6, <2>1, <2>4 DEF Prepare, EngineInv, TypeOK, Lost
  <2> QED
    BY <1>6, <2>2, <2>3, <2>4 DEF Prepare, MayFail
<1>7. CASE Start
  <2>1. at = 7 /\ at' = 8 /\ context' = context
    BY <1>a, <1>7, Places DEF Start, ContextAfterStart, Place, Names
  <2>2. CASE engine' = "started" /\ failed' = failed
    BY <1>7, <2>1, <2>2 DEF Start, EngineInv, TypeOK, Lost
  <2>3. CASE failed' = failed \cup {"start"} /\ engine' = engine
    BY <1>7, <2>1, <2>3 DEF Start, EngineInv, TypeOK, Lost, Calls
  <2>4. CASE engine' = engine /\ failed' = failed
    BY <1>7, <2>1, <2>4 DEF Start, EngineInv, TypeOK, Lost
  <2> QED
    BY <1>7, <2>2, <2>3, <2>4 DEF Start, MayFail
<1>8. CASE SetFrameRate
  <2>1. at = 8 /\ at' = at + 1
    BY <1>a, <1>8, Places DEF SetFrameRate, Place, Names
  <2>2. DOMAIN [fps |-> "FPS"] \subseteq Settings
    BY DEF Settings
  <2> QED
    BY <1>8, <2>1, <2>2, TellEngine DEF SetFrameRate
<1>9. CASE SetDefog
  <2>1. at = 9 /\ at' = at + 1
    BY <1>a, <1>9, Places DEF SetDefog, Place, Names
  <2>2. DOMAIN DefogSettings \subseteq Settings
    BY DEF DefogSettings, Settings
  <2> QED
    BY <1>9, <2>1, <2>2, TellEngine DEF SetDefog
<1>10. CASE GetAttrib
  <2>1. at = 10 /\ at' = at + 1
    BY <1>a, <1>10, Places DEF GetAttrib, Place, Names
  <2>2. DOMAIN << >> \subseteq Settings
    OBVIOUS
  <2> QED
    BY <1>10, <2>1, <2>2, TellEngine DEF GetAttrib
<1>11. CASE Run
  <2>1. at = 11 /\ at' = at + 1
    BY <1>a, <1>11, Places DEF Run, Place, Names
  <2>2. DOMAIN << >> \subseteq Settings
    OBVIOUS
  <2> QED
    BY <1>11, <2>1, <2>2, TellEngine DEF Run
<1>12. CASE StopEngine
  <2>1. at = 12 /\ at' = 13
    BY <1>a, <1>12, Places DEF StopEngine, Place, Names
  <2>2. CASE context /\ engine' = "stopped" /\ failed' = failed
    BY <1>12, <2>1, <2>2 DEF StopEngine, EngineInv, TypeOK, Lost
  <2>3. CASE failed' = failed \cup {"stop"} /\ engine' = engine
    BY <1>12, <2>1, <2>3 DEF StopEngine, EngineInv, TypeOK, Lost, Calls
  <2>4. CASE ~context /\ engine' = engine /\ failed' = failed
    BY <1>12, <2>1, <2>4 DEF StopEngine, EngineInv, TypeOK, Lost
  <2> QED
    BY <1>12, <2>2, <2>3, <2>4 DEF StopEngine, MayFail
<1>13. CASE Deinit
  <2>1. at = 13 /\ at' = 14
    BY <1>a, <1>13, Places DEF Deinit, Place, Names
  <2> QED
    <3>1. ~context' /\ context' \in BOOLEAN
      BY <1>13 DEF Deinit
    <3>2. (Lost' <=> Lost) /\ (context <=> ~Lost)
      BY <1>13, <2>1 DEF Deinit, EngineInv, Lost
    <3>3. context => engine' = "released"
      BY <1>13 DEF Deinit
    <3>4. ~context => engine' = engine
      BY <1>13 DEF Deinit
    <3>5. engine' \in {"none", "created", "prepared", "started", "stopped", "released"}
      BY <3>3, <3>4 DEF EngineInv, TypeOK
    <3> QED
      BY <1>13, <2>1, <3>1, <3>2, <3>3, <3>5 DEF Deinit, EngineInv, TypeOK
<1>14. CASE UNCHANGED vars
  BY <1>14 DEF vars, EngineInv, TypeOK, Lost
<1> QED
  BY <1>1, <1>2, <1>3, <1>4, <1>5, <1>6, <1>7, <1>8, <1>9, <1>10, <1>11, <1>12, <1>13, <1>14
     DEF Next

-----------------------------------------------------------------------------
(* What a step may do to the settings.                                     *)

(* The statement that tells each setting.                                  *)
PlaceOf(s) ==
    CASE s \in {"ldchEn", "ldchLevel"} -> 2 [] s = "fecDirection" -> 3
      [] s = "fecLevel" -> 4 [] s = "fecEn" -> 5 [] s = "fps" -> 8
      [] s \in {"dhzEn", "dhzMode", "dhzLevel"} -> 9

(* A request touches its own settings, and only on a live engine.          *)
LEMMA TellTouches ==
    ASSUME NEW req, Guarded(req) \/ Unguarded(req) \/ Skip
    PROVE  /\ failed \subseteq failed'
           /\ defog' = defog /\ fec' = fec /\ ldch' = ldch /\ engine' = engine
           /\ \A s \in Settings : \/ told'[s] = told[s]
                                  \/ s \in DOMAIN req /\ told'[s] = {req[s]}
           /\ told' # told => context
<1> USE DEF config
<1>1. CASE Tell(req) /\ context
  <2>1. PICK lost \in SUBSET DOMAIN req :
           /\ failed' = failed \cup lost
           /\ told' = [s \in Settings |-> IF s \in DOMAIN req \ lost THEN {req[s]} ELSE told[s]]
    BY <1>1 DEF Tell, MayFail
  <2>2. \A s \in Settings : \/ told'[s] = told[s]
                            \/ s \in DOMAIN req /\ told'[s] = {req[s]}
    BY <2>1
  <2>3. defog' = defog /\ fec' = fec /\ ldch' = ldch /\ engine' = engine
    BY <1>1 DEF Tell
  <2> QED
    BY <1>1, <2>1, <2>2, <2>3
<1>2. CASE told' = told /\ failed' = failed /\ defog' = defog /\ fec' = fec /\ ldch' = ldch
           /\ engine' = engine
  BY <1>2
<1> QED
  BY <1>1, <1>2 DEF Guarded, Unguarded, Skip

(* When no call fails, all of a request reaches the engine.                *)
LEMMA TellAll ==
    ASSUME EngineInv, at \in 2 .. 13, NEW req, DOMAIN req \subseteq Settings, failed' = {},
           Guarded(req) \/ Unguarded(req), NEW s \in DOMAIN req
    PROVE  told'[s] = {req[s]}
<1>1. failed = {}
  BY TellTouches
<1>2. context
  BY <1>1 DEF EngineInv, Lost
<1>3. PICK lost \in SUBSET DOMAIN req :
         /\ failed' = failed \cup lost
         /\ told' = [x \in Settings |-> IF x \in DOMAIN req \ lost THEN {req[x]} ELSE told[x]]
  BY <1>2 DEF Guarded, Unguarded, Tell, MayFail
<1>4. lost = {} /\ s \in Settings
  BY <1>3
<1> QED
  BY <1>3, <1>4

(* Main moves on by one statement or not at all, the failures only grow,   *)
(* a setting changes only at its statement and on a live engine, and the   *)
(* engine only at its five statements.                                     *)
Moved ==
    /\ failed \subseteq failed' /\ defog' = defog /\ fec' = fec /\ ldch' = ldch
    /\ at' = at + 1 \/ UNCHANGED vars
    /\ \A s \in Settings : told'[s] = told[s] \/ at = PlaceOf(s)
    /\ told' # told => context /\ at \in {2, 3, 4, 5, 8, 9}
    /\ \/ engine' = engine
       \/ at = 1 /\ engine' = "created"
       \/ at = 6 /\ context /\ engine' = "prepared"
       \/ at = 7 /\ context /\ engine' = "started"
       \/ at = 12 /\ context /\ engine' = "stopped"
       \/ at = 13 /\ context /\ engine' = "released"

(* So does every step.                                                     *)
LEMMA NextMoves == EngineInv /\ [Next]_vars => Moved
<1> SUFFICES ASSUME EngineInv, [Next]_vars PROVE Moved
  OBVIOUS
<1> USE DEF config
<1>a. TypeOK
  BY DEF EngineInv
<1>b. ASSUME NEW req, Guarded(req) \/ Unguarded(req) \/ Skip, at' = at + 1,
             \A s \in DOMAIN req : PlaceOf(s) = at,
             told' # told => at \in {2, 3, 4, 5, 8, 9}
      PROVE  Moved
  BY <1>b, TellTouches DEF Moved
<1>1. CASE Create
  <2>1. at = 1 /\ at' = at + 1
    BY <1>a, <1>1, Places DEF Create, Place, Names
  <2> QED
    BY <1>1, <2>1 DEF Create, MayFail, Moved
<1>2. CASE SetLDCHLevel
  <2>1. at = 2 /\ at' = at + 1
    BY <1>a, <1>2, Places DEF SetLDCHLevel, Place, Names
  <2>2. \A s \in DOMAIN LdchSettings : PlaceOf(s) = at
    BY <2>1 DEF LdchSettings, PlaceOf
  <2> QED
    BY <1>b, <1>2, <2>1, <2>2 DEF SetLDCHLevel
<1>3. CASE SetFecDirection
  <2>1. at = 3 /\ at' = at + 1
    BY <1>a, <1>3, Places DEF SetFecDirection, Place, Names
  <2>2. \A s \in DOMAIN [fecDirection |-> "Y"] : PlaceOf(s) = at
    BY <2>1 DEF PlaceOf
  <2> QED
    BY <1>b, <1>3, <2>1, <2>2 DEF SetFecDirection
<1>4. CASE SetFecLevel
  <2>1. at = 4 /\ at' = at + 1
    BY <1>a, <1>4, Places DEF SetFecLevel, Place, Names
  <2>2. \A s \in DOMAIN [fecLevel |-> FecLevel(fec)] : PlaceOf(s) = at
    BY <2>1 DEF PlaceOf
  <2> QED
    BY <1>b, <1>4, <2>1, <2>2 DEF SetFecLevel
<1>5. CASE SetFecEn
  <2>1. at = 5 /\ at' = at + 1
    BY <1>a, <1>5, Places DEF SetFecEn, Place, Names
  <2>2. \A s \in DOMAIN [fecEn |-> "on"] : PlaceOf(s) = at
    BY <2>1 DEF PlaceOf
  <2> QED
    BY <1>b, <1>5, <2>1, <2>2 DEF SetFecEn
<1>6. CASE Prepare
  <2>1. at = 6 /\ at' = at + 1
    BY <1>a, <1>6, Places DEF Prepare, Place, Names
  <2> QED
    BY <1>6, <2>1 DEF Prepare, MayFail, Moved
<1>7. CASE Start
  <2>1. at = 7 /\ at' = at + 1
    BY <1>a, <1>7, Places DEF Start, Place, Names
  <2> QED
    BY <1>7, <2>1 DEF Start, MayFail, Moved
<1>8. CASE SetFrameRate
  <2>1. at = 8 /\ at' = at + 1
    BY <1>a, <1>8, Places DEF SetFrameRate, Place, Names
  <2>2. \A s \in DOMAIN [fps |-> "FPS"] : PlaceOf(s) = at
    BY <2>1 DEF PlaceOf
  <2> QED
    BY <1>b, <1>8, <2>1, <2>2 DEF SetFrameRate
<1>9. CASE SetDefog
  <2>1. at = 9 /\ at' = at + 1
    BY <1>a, <1>9, Places DEF SetDefog, Place, Names
  <2>2. \A s \in DOMAIN DefogSettings : PlaceOf(s) = at
    BY <2>1 DEF DefogSettings, PlaceOf
  <2> QED
    BY <1>b, <1>9, <2>1, <2>2 DEF SetDefog
<1>10. CASE GetAttrib
  <2>1. at = 10 /\ at' = at + 1
    BY <1>a, <1>10, Places DEF GetAttrib, Place, Names
  <2>2. DOMAIN << >> = {}
    OBVIOUS
  <2>3. told' = told
    <3>1. CASE context
      <4>1. PICK lost \in SUBSET DOMAIN << >> :
               told' = [s \in Settings |->
                           IF s \in DOMAIN << >> \ lost THEN {<< >>[s]} ELSE told[s]]
        BY <1>10, <3>1 DEF GetAttrib, Unguarded, Tell
      <4>2. told' = [s \in Settings |-> told[s]]
        BY <2>2, <4>1
      <4> QED
        BY <1>a, <4>2 DEF TypeOK
    <3>2. CASE ~context
      BY <1>10, <3>2 DEF GetAttrib, Unguarded
    <3> QED
      BY <3>1, <3>2
  <2> QED
    BY <1>b, <1>10, <2>1, <2>2, <2>3 DEF GetAttrib
<1>11. CASE Run
  <2>1. at = 11 /\ at' = at + 1
    BY <1>a, <1>11, Places DEF Run, Place, Names
  <2> QED
    BY <1>11, <2>1 DEF Run, Skip, Moved
<1>12. CASE StopEngine
  <2>1. at = 12 /\ at' = at + 1
    BY <1>a, <1>12, Places DEF StopEngine, Place, Names
  <2> QED
    BY <1>12, <2>1 DEF StopEngine, MayFail, Moved
<1>13. CASE Deinit
  <2>1. at = 13 /\ at' = at + 1
    BY <1>a, <1>13, Places DEF Deinit, Place, Names
  <2> QED
    BY <1>13, <2>1 DEF Deinit, Moved
<1>14. CASE UNCHANGED vars
  BY <1>14 DEF vars, Moved
<1> QED
  BY <1>1, <1>2, <1>3, <1>4, <1>5, <1>6, <1>7, <1>8, <1>9, <1>10, <1>11, <1>12, <1>13, <1>14
     DEF Next

-----------------------------------------------------------------------------
(* Hence at every time.                                                    *)
LEMMA Inductive == Spec => []EngineInv
  BY InitEngine, NextEngine, PTL DEF Spec

(* The library is called with NULL, and the engine left behind, only after *)
(* it could not be created or prepared.                                    *)
THEOREM LossNeedsFailure == Spec => []LostOnlyByFailure
<1>1. EngineInv => LostOnlyByFailure
  <2> SUFFICES ASSUME EngineInv PROVE LostOnlyByFailure
    OBVIOUS
  <2>1. nullUsed => Lost
    BY DEF EngineInv
  <2>2. at > Len(Statements) => ~context /\ (engine = "released" \/ Lost)
    BY Places13 DEF EngineInv, TypeOK
  <2> QED
    BY <2>1, <2>2 DEF LostOnlyByFailure
<1> QED
  BY <1>1, Inductive, PTL

(* The engine is configured, prepared, started, stopped and released in    *)
(* the order of its header, whatever fails, but for a failed stop: its     *)
(* result is not tested, and the engine is then released while started.    *)
THEOREM EngineInOrder == Spec => EngineOrder
<1> DEFINE Step ==
      /\ told'["fecEn"] # told["fecEn"] => engine = "created"
      /\ engine' = "started" /\ engine # "started" => engine = "prepared"
      /\ told' # told => engine \in {"created", "prepared", "started"}
      /\ engine' = "released" => engine = "stopped" \/ "stop" \in failed
<1>1. EngineInv /\ EngineInv' /\ [Next]_vars => [Step]_vars
  <2> SUFFICES ASSUME EngineInv, EngineInv', [Next]_vars PROVE Step \/ UNCHANGED vars
    OBVIOUS
  <2>m. Moved
    BY NextMoves
  <2> USE Places13
  <2>1. told'["fecEn"] # told["fecEn"] => engine = "created"
    <3>1. told'["fecEn"] # told["fecEn"] => context /\ at = 5
      BY <2>m DEF Moved, Settings, PlaceOf
    <3> QED
      BY <3>1 DEF EngineInv
  <2>2. engine' = "started" /\ engine # "started" => engine = "prepared"
    <3>1. engine' = "started" /\ engine # "started" => context /\ at = 7
      BY <2>m DEF Moved
    <3> QED
      BY <3>1 DEF EngineInv
  <2>3. told' # told => engine \in {"created", "prepared", "started"}
    <3>1. told' # told => context /\ at \in {2, 3, 4, 5, 8, 9}
      BY <2>m DEF Moved
    <3> QED
      BY <3>1 DEF EngineInv
  <2>4. engine' = "released" /\ engine # "released" => engine = "stopped" \/ "stop" \in failed
    <3>1. engine' = "released" /\ engine # "released" => context /\ at = 13
      BY <2>m DEF Moved
    <3> QED
      BY <3>1 DEF EngineInv
  <2>5. at' = at + 1 => engine # "released"
    BY DEF EngineInv, TypeOK
  <2> QED
    BY <2>m, <2>1, <2>2, <2>3, <2>4, <2>5 DEF Moved
<1> QED
  BY <1>1, Inductive, PTL DEF Spec, EngineOrder

-----------------------------------------------------------------------------
(* What the engine has been told when no call fails, one setting at a time.*)

(* The action that runs is the one of main's place.                        *)
LEMMA StepOfPlace ==
    ASSUME EngineInv, [Next]_vars
    PROVE  /\ at = 2 => SetLDCHLevel \/ UNCHANGED vars
           /\ at = 4 => SetFecLevel \/ UNCHANGED vars
           /\ at = 5 => SetFecEn \/ UNCHANGED vars
           /\ at = 7 => Start \/ UNCHANGED vars
           /\ at = 8 => SetFrameRate \/ UNCHANGED vars
           /\ at = 9 => SetDefog \/ UNCHANGED vars
<1>1. \A s \in Names : At(s) => at = Place(s)
  BY Places DEF EngineInv
<1>2. Create => at = 1
  BY <1>1 DEF Create, Place, Names
<1>3. SetLDCHLevel => at = 2
  BY <1>1 DEF SetLDCHLevel, Place, Names
<1>4. SetFecDirection => at = 3
  BY <1>1 DEF SetFecDirection, Place, Names
<1>5. SetFecLevel => at = 4
  BY <1>1 DEF SetFecLevel, Place, Names
<1>6. SetFecEn => at = 5
  BY <1>1 DEF SetFecEn, Place, Names
<1>7. Prepare => at = 6
  BY <1>1 DEF Prepare, Place, Names
<1>8. Start => at = 7
  BY <1>1 DEF Start, Place, Names
<1>9. SetFrameRate => at = 8
  BY <1>1 DEF SetFrameRate, Place, Names
<1>10. SetDefog => at = 9
  BY <1>1 DEF SetDefog, Place, Names
<1>11. GetAttrib => at = 10
  BY <1>1 DEF GetAttrib, Place, Names
<1>12. Run => at = 11
  BY <1>1 DEF Run, Place, Names
<1>13. StopEngine => at = 12
  BY <1>1 DEF StopEngine, Place, Names
<1>14. Deinit => at = 13
  BY <1>1 DEF Deinit, Place, Names
<1> QED
  BY <1>2, <1>3, <1>4, <1>5, <1>6, <1>7, <1>8, <1>9, <1>10, <1>11, <1>12, <1>13, <1>14
     DEF Next

(* Away from its statement a setting stays as it was told.                 *)
LEMMA StaysTold ==
    ASSUME EngineInv, [Next]_vars, NEW s \in Settings, at # PlaceOf(s) \/ UNCHANGED vars
    PROVE  told'[s] = told[s]
  BY NextMoves DEF Moved, vars

FecLevelTold == failed = {} /\ at > 4 => told["fecLevel"] = {FecLevel(fec)}

LEMMA FecLevelKept == EngineInv /\ FecLevelTold /\ [Next]_vars => FecLevelTold'
<1> SUFFICES ASSUME EngineInv, FecLevelTold, [Next]_vars, failed' = {}, at' > 4
             PROVE  told'["fecLevel"] = {FecLevel(fec)}
  BY NextMoves DEF FecLevelTold, Moved
<1>m. failed = {} /\ at \in 1 .. 14 /\ (at' = at + 1 \/ UNCHANGED vars)
  BY NextMoves, Places13 DEF Moved, EngineInv, TypeOK
<1>1. CASE at = 4 /\ SetFecLevel
  <2> DEFINE req == [fecLevel |-> FecLevel(fec)]
  <2>1. DOMAIN req \subseteq Settings /\ "fecLevel" \in DOMAIN req
        /\ req["fecLevel"] = FecLevel(fec)
    BY DEF Settings
  <2>2. Unguarded(req)
    BY <1>1 DEF SetFecLevel
  <2> HIDE DEF req
  <2> QED
    BY <1>1, <2>1, <2>2, TellAll
<1>2. CASE at > 4 /\ (at # 4 \/ UNCHANGED vars)
  BY <1>m, <1>2, StaysTold DEF FecLevelTold, Settings, PlaceOf
<1> QED
  BY <1>m, <1>1, <1>2, StepOfPlace DEF vars

FecEnTold == failed = {} /\ at > 5 => told["fecEn"] = {"on"}

LEMMA FecEnKept == EngineInv /\ FecEnTold /\ [Next]_vars => FecEnTold'
<1> SUFFICES ASSUME EngineInv, FecEnTold, [Next]_vars, failed' = {}, at' > 5
             PROVE  told'["fecEn"] = {"on"}
  BY NextMoves DEF FecEnTold, Moved
<1>m. failed = {} /\ at \in 1 .. 14 /\ (at' = at + 1 \/ UNCHANGED vars)
  BY NextMoves, Places13 DEF Moved, EngineInv, TypeOK
<1>1. CASE at = 5 /\ SetFecEn
  <2> DEFINE req == [fecEn |-> "on"]
  <2>1. DOMAIN req \subseteq Settings /\ "fecEn" \in DOMAIN req
    BY SMT DEF Settings
  <2>2. req["fecEn"] = ("on")
    BY SMT DEF Settings
  <2>3. Guarded(req)
    BY <1>1 DEF SetFecEn
  <2> HIDE DEF req
  <2> QED
    BY <1>1, <2>1, <2>2, <2>3, TellAll
<1>2. CASE at > 5 /\ (at # 5 \/ UNCHANGED vars)
  BY <1>m, <1>2, StaysTold DEF FecEnTold, Settings, PlaceOf
<1> QED
  BY <1>m, <1>1, <1>2, StepOfPlace DEF vars

FpsTold == failed = {} /\ at > 8 => told["fps"] = {"FPS"}

LEMMA FpsKept == EngineInv /\ FpsTold /\ [Next]_vars => FpsTold'
<1> SUFFICES ASSUME EngineInv, FpsTold, [Next]_vars, failed' = {}, at' > 8
             PROVE  told'["fps"] = {"FPS"}
  BY NextMoves DEF FpsTold, Moved
<1>m. failed = {} /\ at \in 1 .. 14 /\ (at' = at + 1 \/ UNCHANGED vars)
  BY NextMoves, Places13 DEF Moved, EngineInv, TypeOK
<1>1. CASE at = 8 /\ SetFrameRate
  <2> DEFINE req == [fps |-> "FPS"]
  <2>1. DOMAIN req \subseteq Settings /\ "fps" \in DOMAIN req
    BY SMT DEF Settings
  <2>2. req["fps"] = ("FPS")
    BY SMT DEF Settings
  <2>3. Guarded(req)
    BY <1>1 DEF SetFrameRate
  <2> HIDE DEF req
  <2> QED
    BY <1>1, <2>1, <2>2, <2>3, TellAll
<1>2. CASE at > 8 /\ (at # 8 \/ UNCHANGED vars)
  BY <1>m, <1>2, StaysTold DEF FpsTold, Settings, PlaceOf
<1> QED
  BY <1>m, <1>1, <1>2, StepOfPlace DEF vars

DhzEnTold == failed = {} /\ at > 9 => told["dhzEn"] = {IF defog > 0 THEN "on" ELSE "off"}

LEMMA DhzEnKept == EngineInv /\ DhzEnTold /\ [Next]_vars => DhzEnTold'
<1> SUFFICES ASSUME EngineInv, DhzEnTold, [Next]_vars, failed' = {}, at' > 9
             PROVE  told'["dhzEn"] = {IF defog > 0 THEN "on" ELSE "off"}
  BY NextMoves DEF DhzEnTold, Moved
<1>m. failed = {} /\ at \in 1 .. 14 /\ (at' = at + 1 \/ UNCHANGED vars)
  BY NextMoves, Places13 DEF Moved, EngineInv, TypeOK
<1>1. CASE at = 9 /\ SetDefog
  <2> DEFINE req == DefogSettings
  <2>1. DOMAIN req \subseteq Settings /\ "dhzEn" \in DOMAIN req
    BY SMT DEF Settings, DefogSettings
  <2>2. req["dhzEn"] = (IF defog > 0 THEN "on" ELSE "off")
    BY SMT DEF Settings, DefogSettings
  <2>3. Guarded(req)
    BY <1>1 DEF SetDefog
  <2> HIDE DEF req
  <2> QED
    BY <1>1, <2>1, <2>2, <2>3, TellAll
<1>2. CASE at > 9 /\ (at # 9 \/ UNCHANGED vars)
  BY <1>m, <1>2, StaysTold DEF DhzEnTold, Settings, PlaceOf
<1> QED
  BY <1>m, <1>1, <1>2, StepOfPlace DEF vars

DhzLevelTold == failed = {} /\ at > 9 /\ defog > 0 => told["dhzLevel"] = {DhzLevel(defog)}

LEMMA DhzLevelKept == EngineInv /\ DhzLevelTold /\ [Next]_vars => DhzLevelTold'
<1> SUFFICES ASSUME EngineInv, DhzLevelTold, [Next]_vars, failed' = {}, at' > 9, defog > 0
             PROVE  told'["dhzLevel"] = {DhzLevel(defog)}
  BY NextMoves DEF DhzLevelTold, Moved
<1>m. failed = {} /\ at \in 1 .. 14 /\ (at' = at + 1 \/ UNCHANGED vars)
  BY NextMoves, Places13 DEF Moved, EngineInv, TypeOK
<1>1. CASE at = 9 /\ SetDefog
  <2> DEFINE req == DefogSettings
  <2>1. DOMAIN req \subseteq Settings /\ "dhzLevel" \in DOMAIN req
    BY SMT DEF Settings, DefogSettings
  <2>2. req["dhzLevel"] = (DhzLevel(defog))
    BY SMT DEF Settings, DefogSettings
  <2>3. Guarded(req)
    BY <1>1 DEF SetDefog
  <2> HIDE DEF req
  <2> QED
    BY <1>1, <2>1, <2>2, <2>3, TellAll
<1>2. CASE at > 9 /\ (at # 9 \/ UNCHANGED vars)
  BY <1>m, <1>2, StaysTold DEF DhzLevelTold, Settings, PlaceOf
<1> QED
  BY <1>m, <1>1, <1>2, StepOfPlace DEF vars

LdchEnTold == failed = {} /\ at > 2 => told["ldchEn"] = IF ldch # 0 THEN {"on"} ELSE {}

(* Nothing is told of the correction before its statement.                 *)
LdchUntold == at <= 2 => told["ldchEn"] = {} /\ told["ldchLevel"] = {}

LEMMA LdchUntoldKept == EngineInv /\ LdchUntold /\ [Next]_vars => LdchUntold'
<1> SUFFICES ASSUME EngineInv, LdchUntold, [Next]_vars, at' <= 2
             PROVE  told'["ldchEn"] = {} /\ told'["ldchLevel"] = {}
  BY DEF LdchUntold
<1>m. at \in 1 .. 14 /\ (at' = at + 1 \/ UNCHANGED vars)
  BY NextMoves, Places13 DEF Moved, EngineInv, TypeOK
<1>1. at <= 2 /\ (at # 2 \/ UNCHANGED vars)
  BY <1>m DEF vars
<1> QED
  BY <1>1, StaysTold DEF LdchUntold, Settings, PlaceOf

LEMMA LdchEnKept == EngineInv /\ LdchEnTold /\ LdchUntold /\ [Next]_vars => LdchEnTold'
<1> SUFFICES ASSUME EngineInv, LdchEnTold, LdchUntold, [Next]_vars, failed' = {}, at' > 2
             PROVE  told'["ldchEn"] = IF ldch # 0 THEN {"on"} ELSE {}
  BY NextMoves DEF LdchEnTold, Moved
<1>m. failed = {} /\ at \in 1 .. 14 /\ (at' = at + 1 \/ UNCHANGED vars)
  BY NextMoves, Places13 DEF Moved, EngineInv, TypeOK
<1>1. CASE at = 2 /\ SetLDCHLevel /\ ldch # 0
  <2> DEFINE req == LdchSettings
  <2>1. DOMAIN req \subseteq Settings /\ "ldchEn" \in DOMAIN req
    BY SMT DEF Settings, LdchSettings
  <2>2. req["ldchEn"] = ("on")
    BY SMT DEF Settings, LdchSettings
  <2>3. Guarded(req)
    BY <1>1 DEF SetLDCHLevel
  <2> HIDE DEF req
  <2> QED
    BY <1>1, <2>1, <2>2, <2>3, TellAll
<1>2. CASE at = 2 /\ SetLDCHLevel /\ ldch = 0
  BY <1>2 DEF SetLDCHLevel, Skip, LdchUntold
<1>3. CASE at > 2 /\ (at # 2 \/ UNCHANGED vars)
  BY <1>m, <1>3, StaysTold DEF LdchEnTold, Settings, PlaceOf
<1> QED
  BY <1>m, <1>1, <1>2, <1>3, StepOfPlace DEF vars

LdchLevelTold ==
    failed = {} /\ at > 2 => told["ldchLevel"] = IF ldch \in 1 .. 255 THEN {ldch} ELSE {}

LEMMA LdchLevelKept == EngineInv /\ LdchLevelTold /\ LdchUntold /\ [Next]_vars => LdchLevelTold'
<1> SUFFICES ASSUME EngineInv, LdchLevelTold, LdchUntold, [Next]_vars, failed' = {}, at' > 2
             PROVE  told'["ldchLevel"] = IF ldch \in 1 .. 255 THEN {ldch} ELSE {}
  BY NextMoves DEF LdchLevelTold, Moved
<1>m. failed = {} /\ at \in 1 .. 14 /\ (at' = at + 1 \/ UNCHANGED vars)
  BY NextMoves, Places13 DEF Moved, EngineInv, TypeOK
<1>1. CASE at = 2 /\ SetLDCHLevel /\ ldch \in 1 .. 255
  <2> DEFINE req == LdchSettings
  <2>1. DOMAIN req \subseteq Settings /\ "ldchLevel" \in DOMAIN req
    BY <1>1, SMT DEF Settings, LdchSettings
  <2>2. req["ldchLevel"] = ldch
    BY <1>1, SMT DEF Settings, LdchSettings
  <2>3. Guarded(req)
    BY <1>1 DEF SetLDCHLevel
  <2> HIDE DEF req
  <2> QED
    BY <1>1, <2>1, <2>2, <2>3, TellAll
<1>2. CASE at = 2 /\ SetLDCHLevel /\ ldch \notin 1 .. 255
  <2>1. "ldchLevel" \notin DOMAIN LdchSettings
    BY <1>2 DEF LdchSettings
  <2>2. told'["ldchLevel"] = told["ldchLevel"]
    BY <1>2, <2>1, TellTouches DEF SetLDCHLevel, Settings
  <2> QED
    BY <1>2, <2>2 DEF LdchUntold
<1>3. CASE at > 2 /\ (at # 2 \/ UNCHANGED vars)
  BY <1>m, <1>3, StaysTold DEF LdchLevelTold, Settings, PlaceOf
<1> QED
  BY <1>m, <1>1, <1>2, <1>3, StepOfPlace DEF vars

(* Without a failure the engine is prepared, then started.                 *)
Started == failed = {} /\ at \in 8 .. 12 => engine = "started"

LEMMA StartedKept == EngineInv /\ Started /\ [Next]_vars => Started'
<1> SUFFICES ASSUME EngineInv, Started, [Next]_vars, failed' = {}, at' \in 8 .. 12
             PROVE  engine' = "started"
  BY DEF Started
<1>m. failed = {} /\ at \in 1 .. 14 /\ (at' = at + 1 \/ UNCHANGED vars)
  BY NextMoves, Places13 DEF Moved, EngineInv, TypeOK
<1>1. CASE at = 7 /\ Start
  <2>1. context
    <3>1. ~Lost
      BY <1>m DEF Lost
    <3> QED
      BY <1>1, <3>1 DEF EngineInv
  <2> QED
    BY <1>1, <2>1 DEF Start, MayFail
<1>2. CASE at \in 8 .. 11
  BY <1>m, <1>2, NextMoves DEF Moved, Started
<1>3. CASE UNCHANGED vars
  BY <1>m, <1>3 DEF Started, vars
<1> QED
  BY <1>m, <1>1, <1>2, <1>3, StepOfPlace

-----------------------------------------------------------------------------
(* The conversions are proportional up to the level that is the strongest. *)
LEMMA DhzLevels ==
    \A v \in Int : v > 0 => /\ DhzLevel(v) \in 1 .. 10
                            /\ Near(DhzLevel(v) * 255, Clamped(v, 0, 255) * 10, 255)
  BY DEF DhzLevel, Near, Clamped

LEMMA FecLevels ==
    \A v \in Int : /\ FecLevel(v) \in 0 .. 255
                   /\ Near(FecLevel(v) * 100, Clamped(v, 0, 100) * 255, 100)
  BY DEF FecLevel, Near, Clamped

ToldInv ==
    /\ LdchUntold /\ LdchEnTold /\ LdchLevelTold /\ FecLevelTold /\ FecEnTold
    /\ FpsTold /\ DhzEnTold /\ DhzLevelTold /\ Started

(* When no call fails, the levels of config.ini are in the engine before   *)
(* the pictures start: defog_level in proportion up to 255, fec_level as a *)
(* percentage whose every value over 100 is the strongest, ldch_level as   *)
(* it is.                                                                  *)
THEOREM ConfigReachesEngine == Spec => []SettingsReachEngine
<1>1. Init => ToldInv
  <2> SUFFICES ASSUME Init PROVE ToldInv
    OBVIOUS
  <2>1. at = 1 /\ told["ldchEn"] = {} /\ told["ldchLevel"] = {}
    BY DEF Init, Settings
  <2> QED
    BY <2>1 DEF ToldInv, LdchUntold, LdchEnTold, LdchLevelTold, FecLevelTold, FecEnTold,
                FpsTold, DhzEnTold, DhzLevelTold, Started
<1>2. EngineInv /\ ToldInv /\ [Next]_vars => ToldInv'
  BY LdchUntoldKept, LdchEnKept, LdchLevelKept, FecLevelKept, FecEnKept, FpsKept, DhzEnKept,
     DhzLevelKept, StartedKept DEF ToldInv
<1>3. EngineInv /\ ToldInv => SettingsReachEngine
  <2> SUFFICES ASSUME EngineInv, ToldInv, failed = {}, at < Len(Statements),
                      Statements[at] = "running"
               PROVE  SettingsReachEngine
    BY Zenon DEF SettingsReachEngine
  <2>a. at \in 1 .. 12
    BY Places13 DEF EngineInv, TypeOK
  <2>p. at = 11
    BY <2>a DEF Statements
  <2>t. fec \in Int /\ defog \in Int
    BY IspAssumption DEF EngineInv, TypeOK
  <2>1. engine = "started" /\ told["fps"] = {"FPS"} /\ told["fecEn"] = {"on"}
    BY <2>p DEF ToldInv, Started, FpsTold, FecEnTold
  <2>2. told["dhzEn"] = {IF defog > 0 THEN "on" ELSE "off"}
    BY <2>p DEF ToldInv, DhzEnTold
  <2>3. defog > 0 => \E level \in told["dhzLevel"] :
              level \in 1 .. 10 /\ Near(level * 255, Clamped(defog, 0, 255) * 10, 255)
    <3>1. defog > 0 => told["dhzLevel"] = {DhzLevel(defog)}
      BY <2>p DEF ToldInv, DhzLevelTold
    <3>2. defog > 0 => /\ DhzLevel(defog) \in 1 .. 10
                       /\ Near(DhzLevel(defog) * 255, Clamped(defog, 0, 255) * 10, 255)
      BY <2>t, DhzLevels
    <3> QED
      BY <3>1, <3>2
  <2>4. \E level \in told["fecLevel"] :
              level \in 0 .. 255 /\ Near(level * 100, Clamped(fec, 0, 100) * 255, 100)
    <3>1. told["fecLevel"] = {FecLevel(fec)}
      BY <2>p DEF ToldInv, FecLevelTold
    <3> QED
      BY <2>t, <3>1, FecLevels
  <2>5. told["ldchEn"] = IF ldch # 0 THEN {"on"} ELSE {}
    BY <2>p DEF ToldInv, LdchEnTold
  <2>6. told["ldchLevel"] = IF ldch \in 1 .. 255 THEN {ldch} ELSE {}
    BY <2>p DEF ToldInv, LdchLevelTold
  <2> QED
    BY <2>1, <2>2, <2>3, <2>4, <2>5, <2>6, Zenon DEF SettingsReachEngine
<1> QED
  BY <1>1, <1>2, <1>3, Inductive, PTL DEF Spec

=============================================================================
