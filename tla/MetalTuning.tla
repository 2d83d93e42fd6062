----------------------------- MODULE MetalTuning -----------------------------
(***************************************************************************)
(* How the Metal backend is tuned: the settings of the environment, the    *)
(* defaults of the device's family, and what the engine asks the result.   *)
(* A setting that is not made is Unset; the settings of one environment    *)
(* are [attention, precision, profile, threshold, budget, steps, rows].    *)
(***************************************************************************)
EXTENDS Integers, FiniteSetsExt

CONSTANTS
    Environments,    \* the settings that are ever made
    Devices,         \* the families that are ever detected
    Dim, Heads,
    MaxHeadDim,      \* FLASH_ATTENTION_MAX_HEAD_DIM
    CustomColumns,   \* the least number of columns for the engine's own kernel
    MaximumPosition

ASSUME TuningAssumption ==
    /\ {Dim, Heads, MaximumPosition} \subseteq Nat \ {0}
    /\ {MaxHeadDim, CustomColumns} \subseteq Nat

Unset == -1

\* DeviceDefaults::for_family
ForFamily == [m1      |-> [budget |-> 54, steps |-> 6],
              m2      |-> [budget |-> 48, steps |-> 3],
              m3      |-> [budget |-> 64, steps |-> 4],
              m4      |-> [budget |-> 64, steps |-> 4],
              generic |-> [budget |-> 24, steps |-> 2]]

\* MetalConfig::from_lookup: what the process does not start with.
ConfigValid(env) ==
    /\ env.precision \in {"fp32", "mixed-f16"}
    /\ env.attention \in {"auto", "classic", "flash"}
    /\ env.profile \in DOMAIN ForFamily \cup {"auto"}
    /\ env.threshold = Unset \/ env.threshold \in 1 .. MaximumPosition
    /\ env.budget = Unset \/ env.budget > 0
    /\ env.steps = Unset \/ env.steps \in 1 .. 8

Or(setting, default) == IF setting = Unset THEN default ELSE setting

\* MetalTuning::resolve
Resolve(env, device) ==
    LET defaults == ForFamily[IF env.profile = "auto" THEN device ELSE env.profile]
    IN  [attention |-> env.attention, storage |-> env.precision,
         threshold |-> Or(env.threshold, 1),
         budget |-> Or(env.budget, defaults.budget), steps |-> Or(env.steps, defaults.steps),
         rows |-> Or(env.rows, 0)]

Tunings == {Resolve(env, device) : env \in {e \in Environments : ConfigValid(e)}, device \in Devices}

-----------------------------------------------------------------------------

\* AttentionTuning::use_flash
UseFlash(tuning, queries, keys) ==
    /\ Dim \div Heads <= MaxHeadDim
    /\ \/ tuning.attention = "flash"
       \/ /\ tuning.attention = "auto"
          /\ queries = 1 \/ (queries = keys /\ queries >= tuning.threshold)

\* The engine's own kernel, or MPS; the latter knows neither bias nor ReLU.
UseMps(tuning, rows, cols) ==
    /\ tuning.storage = "fp32"
    /\ ~(tuning.rows > 0 /\ rows <= tuning.rows /\ cols >= CustomColumns)

\* DecodeTuning::submission_steps
StepsToSubmit(tuning, active, remaining, completed) ==
    Max({1, Min({Max({1, tuning.budget \div Max({1, active})}),
                 IF completed THEN 1 ELSE tuning.steps,
                 remaining})})

=============================================================================
