-------------------------------- MODULE Isp --------------------------------
(***************************************************************************)
(* The image processor of the camera: init_isp of src/isp_app.cpp with the *)
(* functions it calls, and SAMPLE_COMM_ISP_Stop as destroy_all calls it.   *)
(* Nothing else in the program reaches isp_app.cpp.                        *)
(*                                                                         *)
(* g_aiq_ctx[s32CamId] is NULL or names the engine of the ISP library.     *)
(* Every library call may fail; only the results of prepare and start are  *)
(* tested.  Most wrappers return at once on a NULL context; the calls that *)
(* init_isp makes itself do not look.  All of it runs on the main thread.  *)
(***************************************************************************)
EXTENDS Integers, Sequences, FiniteSets

CONSTANTS
    Levels,         \* values of defog_level, fec_level, ldch_level in config.ini
    MaxFailures     \* bound: library calls that fail

(* Beyond MaxLevel the product fec_level * 2.55 leaves the range of int.   *)
MaxLevel == 800000000

ASSUME IspAssumption ==
    Levels \subseteq -MaxLevel .. MaxLevel /\ MaxFailures \in Nat

(* Calls of the library that change a setting of the engine.               *)
Settings == {"ldchEn", "ldchLevel", "fecDirection", "fecLevel", "fecEn", "fps",
             "dhzEn", "dhzMode", "dhzLevel"}

Calls == Settings \cup {"init", "prepare", "start", "stop"}

BugStatements == <<"init", "ldch", "fecDirection", "fecLevel", "prepare", "start",
                   "fecEn", "fps", "defog", "getAttrib", "running", "stop", "deinit">>

(* The statements of init_isp, main's life after it, and of Stop.          *)
Statements == <<"init", "ldch", "fecDirection", "fecLevel", "fecEn", "prepare", "start",
                "fps", "defog", "getAttrib", "running", "stop", "deinit">>

VARIABLES
    at,             \* index of the next statement, past the end after Stop
    defog, fec, ldch, \* gParams.defog_level, fec_level, ldch_level
    context,        \* g_aiq_ctx[s32CamId] is not NULL
    engine,         \* state of the library's engine
    told,           \* what each setting was last set to, as a set: {} before that
    failed,         \* library calls that failed
    nullUsed        \* the library was called with NULL

vars == <<at, defog, fec, ldch, context, engine, told, failed, nullUsed>>

config == <<defog, fec, ldch>>

Init ==
    /\ at = 1
    /\ defog \in Levels /\ fec \in Levels /\ ldch \in Levels
    /\ context = FALSE /\ engine = "none"
    /\ told = [s \in Settings |-> {}]
    /\ failed = {} /\ nullUsed = FALSE

-----------------------------------------------------------------------------
(* Conversions of the configured levels.                                   *)

BugDhzLevel(v) == IF (v * 10) \div 255 > 10 THEN 10 ELSE (v * 10) \div 255

(* u32Value / 25.5, cut off, then clamped to 1 .. 10.                      *)
DhzLevel(v) ==
    LET level == (v * 10) \div 255 IN
    IF level < 1 THEN 1 ELSE IF level > 10 THEN 10 ELSE level

(* fec_level * 2.55, cut off, at most 255.  In double precision 100 * 2.55 *)
(* is less than 255; the other products that fall short of their whole     *)
(* value (180, 200, ...) are above 255 anyway.                             *)
FecLevel(v) ==
    LET product == IF v < 0 THEN 0 ELSE IF v = 100 THEN 254 ELSE (v * 255) \div 100
    IN  IF product > 255 THEN 255 ELSE product

(* The level becomes an RK_U32: a negative one turns the correction on and *)
(* is too large to be set.                                                 *)
LdchSettings ==
    IF ldch \in 1 .. 255 THEN [ldchEn |-> "on", ldchLevel |-> ldch] ELSE [ldchEn |-> "on"]

DefogSettings ==
    IF defog > 0
    THEN [dhzEn |-> "on", dhzMode |-> "manual", dhzLevel |-> DhzLevel(defog)]
    ELSE [dhzEn |-> "off"]

-----------------------------------------------------------------------------
At(s) == at <= Len(Statements) /\ Statements[at] = s /\ at' = at + 1

MayFail(calls) ==
    /\ Cardinality(failed \cup calls) <= MaxFailures
    /\ failed' = failed \cup calls

(* The library is given the settings req; each call may fail on its own.   *)
Tell(req) ==
    /\ \E lost \in SUBSET DOMAIN req :
          /\ MayFail(lost)
          /\ told' = [s \in Settings |-> IF s \in DOMAIN req \ lost THEN {req[s]} ELSE told[s]]
    /\ UNCHANGED <<config, context, engine, nullUsed>>

Skip == UNCHANGED <<config, context, engine, told, failed, nullUsed>>

(* A wrapper, which returns -1 on a NULL context.                          *)
Guarded(req) == IF context THEN Tell(req) ELSE Skip

(* A call with whatever the context is.                                    *)
Unguarded(req) ==
    IF context
    THEN Tell(req)
    ELSE nullUsed' = TRUE /\ UNCHANGED <<config, context, engine, told, failed>>

(* SAMPLE_COMM_ISP_Init: a NULL result of the library is stored as it is.  *)
Create ==
    /\ At("init")
    /\ \/ engine' = "created" /\ context' = TRUE /\ UNCHANGED failed
       \/ MayFail({"init"}) /\ UNCHANGED <<engine, context>>
    /\ UNCHANGED <<config, told, nullUsed>>

SetLDCHLevel == At("ldch") /\ IF ldch # 0 THEN Guarded(LdchSettings) ELSE Skip

SetFecDirection == At("fecDirection") /\ Unguarded([fecDirection |-> "Y"])

SetFecLevel == At("fecLevel") /\ Unguarded([fecLevel |-> FecLevel(fec)])

SetFecEn == At("fecEn") /\ Guarded([fecEn |-> "on"])

(* The first half of Run: a failed prepare clears the context.             *)
Prepare ==
    /\ At("prepare")
    /\ IF context
       THEN \/ engine' = "prepared" /\ UNCHANGED <<context, failed>>
            \/ context' = FALSE /\ MayFail({"prepare"}) /\ UNCHANGED engine
       ELSE UNCHANGED <<context, engine, failed>>
    /\ UNCHANGED <<config, told, nullUsed>>

BugContextAfterStart(ok) == context /\ ok
ContextAfterStart(ok) == context

(* The second half of Run, reached when prepare succeeded.                 *)
Start ==
    /\ At("start")
    /\ IF context
       THEN \/ /\ engine' = "started" /\ context' = ContextAfterStart(TRUE)
               /\ UNCHANGED failed
            \/ /\ MayFail({"start"}) /\ context' = ContextAfterStart(FALSE)
               /\ UNCHANGED engine
       ELSE UNCHANGED <<context, engine, failed>>
    /\ UNCHANGED <<config, told, nullUsed>>

SetFrameRate == At("fps") /\ Guarded([fps |-> "FPS"])

SetDefog == At("defog") /\ Guarded(DefogSettings)

(* The two reads at the end of init_isp, for printing only.                *)
GetAttrib == At("getAttrib") /\ Unguarded(<<>>)

(* The rest of main: it goes on to destroy_all, or returns before that     *)
(* when a set-up call fails, and leaves the engine to the system.          *)
Run == At("running") /\ Skip

(* SAMPLE_COMM_ISP_Stop: stop, whose result is not tested, then deinit.    *)
StopEngine ==
    /\ At("stop")
    /\ IF context
       THEN \/ engine' = "stopped" /\ UNCHANGED failed
            \/ MayFail({"stop"}) /\ UNCHANGED engine
       ELSE UNCHANGED <<engine, failed>>
    /\ UNCHANGED <<config, context, told, nullUsed>>

Deinit ==
    /\ At("deinit")
    /\ engine' = IF context THEN "released" ELSE engine
    /\ context' = FALSE
    /\ UNCHANGED <<config, told, failed, nullUsed>>

Next ==
    \/ Create \/ SetLDCHLevel \/ SetFecDirection \/ SetFecLevel \/ SetFecEn
    \/ Prepare \/ Start \/ SetFrameRate \/ SetDefog \/ GetAttrib
    \/ Run \/ StopEngine \/ Deinit

Spec == Init /\ [][Next]_vars

-----------------------------------------------------------------------------
TypeOK ==
    /\ at \in 1 .. Len(Statements) + 1
    /\ defog \in Levels /\ fec \in Levels /\ ldch \in Levels
    /\ context \in BOOLEAN /\ nullUsed \in BOOLEAN
    /\ engine \in {"none", "created", "prepared", "started", "stopped", "released"}
    /\ told = [s \in Settings |-> told[s]]
    /\ failed \subseteq Calls

Lost == {"init", "prepare"} \cap failed # {}

(* Whatever fails, the library is handed a NULL context, and the engine is *)
(* left behind by destroy_all, only after the engine could not be created  *)
(* or prepared.  A failed start, setting or stop causes neither.           *)
LostOnlyByFailure ==
    /\ nullUsed => Lost
    /\ at > Len(Statements) => ~context /\ (engine = "released" \/ Lost)

(* The engine is used in the order its header asks for: FEC is switched on *)
(* before prepare, start follows prepare, settings reach a live engine,    *)
(* and it is not released while it runs, unless stop itself failed: Stop   *)
(* does not test that, and the header (rk_aiq_user_api_sysctl.h:68 under   *)
(* inc/camera_engine_rkaiq/uAPI) does not allow for it.                    *)
EngineOrder ==
    [][/\ told'["fecEn"] # told["fecEn"] => engine = "created"
       /\ engine' = "started" /\ engine # "started" => engine = "prepared"
       /\ told' # told => engine \in {"created", "prepared", "started"}
       /\ engine' = "released" => engine = "stopped" \/ "stop" \in failed]_vars

Near(a, b, tolerance) == a - b \in -tolerance .. tolerance

Clamped(v, low, high) == IF v < low THEN low ELSE IF v > high THEN high ELSE v

(* When no call fails, the levels of config.ini are in the engine before   *)
(* the pictures start.  defog_level up to 0 is off, 1 .. 255 is            *)
(* proportional to the manual strengths 1 .. 10 and a higher one is 10.    *)
(* fec_level is a percentage of 255: every level over 100 is the strongest *)
(* correction, every one below 0 the weakest.  ldch_level 0 leaves the     *)
(* engine's default, 1 .. 255 is set as it is, and any other one only      *)
(* switches the correction on.                                             *)
SettingsReachEngine ==
    failed = {} /\ at < Len(Statements) /\ Statements[at] = "running" =>
        /\ engine = "started" /\ told["fps"] = {"FPS"} /\ told["fecEn"] = {"on"}
        /\ told["dhzEn"] = {IF defog > 0 THEN "on" ELSE "off"}
        /\ defog > 0 => \E level \in told["dhzLevel"] :
              level \in 1 .. 10 /\ Near(level * 255, Clamped(defog, 0, 255) * 10, 255)
        /\ \E level \in told["fecLevel"] :
              level \in 0 .. 255 /\ Near(level * 100, Clamped(fec, 0, 100) * 255, 100)
        /\ told["ldchEn"] = IF ldch # 0 THEN {"on"} ELSE {}
        /\ told["ldchLevel"] = IF ldch \in 1 .. 255 THEN {ldch} ELSE {}

(* src/README:2 says fec_level in config.ini sets the level of the fisheye *)
(* correction, 0-255, and config.ini asks for 200.  So when no call fails, *)
(* a level of that range is the level of the engine, as ldch_level is.     *)
FecLevelAsDocumented ==
    failed = {} /\ at < Len(Statements) /\ Statements[at] = "running" /\ fec \in 0 .. 255 =>
        told["fecLevel"] = {fec}

=============================================================================
