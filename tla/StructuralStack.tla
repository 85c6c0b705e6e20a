--------------------------- MODULE StructuralStack ---------------------------
(***************************************************************************)
(* The causal stack of structural.rs: each bar is observed by D_O          *)
(* (DoTrajectory), then by ODCE and K-MEM, which read that observation,    *)
(* and the four are assembled into the masked structural vector.  The code *)
(* runs one pass per operator over all rows; every pass reads rows up to   *)
(* its own index only, so the passes are taken here one bar at a time.     *)
(*                                                                         *)
(* A magnitude is 0 (exactly zero) or 1 (positive): the normalization of   *)
(* ODCE and the sign of a differential depend on nothing else.             *)
(***************************************************************************)
EXTENDS DoTrajectory, FiniteSets

CONSTANTS
  OdceWindow,          \* ODCE_WINDOW, 32 in the code
  OdceMinimumSupport,  \* ODCE_MINIMUM_ORGANIZATION_SUPPORT, 8
  KMemScale,           \* one deficit unit on the scale of the K-MEM state
  DecayParts           \* K-MEM keeps DecayParts - 1 of DecayParts per bar

ASSUME OdceAssumption ==
  OdceWindow \in Nat \ {0} /\ OdceMinimumSupport \in Nat \ {0}

ASSUME KMemAssumption == KMemScale \in Nat /\ DecayParts \in Nat \ {0}

VARIABLES
  organizationRows,  \* trailing coherence * (1 - contraction) of the observations
  histories,         \* trailing raw magnitudes of each channel
  odce,              \* the OdceState of bar index - 1
  kState,            \* K-MEM: state and initialized
  kInitialized,
  kMem,              \* the KMemState of bar index - 1
  mask               \* availability_mask of the optional dimensions

odceVars  == <<organizationRows, histories, odce>>
kMemVars  == <<kState, kInitialized, kMem>>
stackVars == <<vars, odceVars, kMemVars, mask>>

Magnitude    == {0, 1}
Channels     == {"retained_friction", "structural_recovery", "adaptive_organization_level"}
Benefits     == Channels \ {"retained_friction"}
OptionalDims == {"transport_coherence", "variation_contraction", "transport_deficit",
                 "friction_vs_recovery", "friction_vs_organization", "strictly_prior_z32"}

StackTypeOK ==
  /\ TypeOK
  /\ organizationRows \in Seq(Option(Magnitude)) /\ Len(organizationRows) <= OdceWindow
  /\ histories \in [Channels -> Seq(Option(Magnitude))]
  /\ \A c \in Channels : Len(histories[c]) <= OdceWindow
  /\ odce \in [differential : [Benefits -> Option(-1..1)],
               trend        : [Benefits -> BOOLEAN],
               exposure     : [Benefits -> 0..MaxIndex]]
  /\ kState \in 0..(KMemScale * CoherenceThreshold)
  /\ kInitialized \in BOOLEAN
  /\ kMem \in [prior : Option(0..(KMemScale * CoherenceThreshold)),
               after : Option(0..(KMemScale * CoherenceThreshold))]
  /\ mask \in SUBSET OptionalDims

-----------------------------------------------------------------------------
(* ODCE.                                                                   *)

Present(s) == {k \in DOMAIN s : s[k] # {}}

(* coherence * (1 - contraction) of one observation, if both are known:    *)
(* contraction is 1 only when a capacity of zero follows a positive peak.  *)
Organization(r, trailing) ==
  {IF r.contraction = "CONTRACTING" /\ 0 \in trailing[Len(trailing)] THEN 0 ELSE Least(c, 1) :
     c \in {x \in r.coherence : r.contraction # "UNRESOLVED"}}

(* The organization level is the mean of a sufficiently supported window.  *)
FaultyOrganizationLevel(rows) ==
  IF Present(rows) # {}
  THEN {IF \E k \in DOMAIN rows : 1 \in rows[k] THEN 1 ELSE 0} ELSE {}
OrganizationLevel(rows) ==
  IF Cardinality(Present(rows)) >= OdceMinimumSupport
  THEN {IF \E k \in DOMAIN rows : 1 \in rows[k] THEN 1 ELSE 0} ELSE {}

(* causal_relative_magnitude: the reference is the median of the available *)
(* history, positive when at least half of it is; without a positive       *)
(* reference only a zero can be normalized.                                *)
Normalized(raw, history) ==
  {x \in raw :
     LET known    == Present(history)
         positive == {k \in known : 1 \in history[k]}
     IN /\ Cardinality(known) >= OdceMinimumSupport
        /\ 2 * Cardinality(positive) >= Cardinality(known) \/ x = 0}

(* The possible signs of cost - benefit.                                   *)
Signs(cost, benefit) == IF cost = 1 /\ benefit = 1 THEN -1..1 ELSE {cost - benefit}

Differentials(cost, benefit) ==
  IF cost = {} \/ benefit = {} THEN {{}}
  ELSE {{s} : s \in UNION {Signs(c, b) : c \in cost, b \in benefit}}

OdceStep(friction, recovery) ==
  LET rows == Push(organizationRows, Organization(row', capacities'), OdceWindow)
      raw  == [c \in Channels |->
                 CASE c = "retained_friction"           -> {friction}
                   [] c = "structural_recovery"         -> {recovery}
                   [] c = "adaptive_organization_level" -> OrganizationLevel(rows)]
      normalized == [c \in Channels |-> Normalized(raw[c], histories[c])]
  IN
  /\ index = 0 => recovery = 0     \* nothing below the first capacity yet
  /\ organizationRows' = rows
  /\ histories' = [c \in Channels |-> Push(histories[c], raw[c], OdceWindow)]
  /\ \E recovered \in Differentials(normalized["retained_friction"],
                                    normalized["structural_recovery"]),
        organized \in Differentials(normalized["retained_friction"],
                                    normalized["adaptive_organization_level"]) :
       LET differential == [b \in Benefits |->
                              IF b = "structural_recovery" THEN recovered ELSE organized]
       IN odce' =
            [differential |-> differential,
             trend        |-> [b \in Benefits |->
                                 differential[b] # {} /\ odce.differential[b] # {}],
             exposure     |-> [b \in Benefits |->
                                 odce.exposure[b] + Greatest(ValueOr(differential[b], 0), 0)]]

-----------------------------------------------------------------------------
(* K-MEM: an exponential memory of the transport deficit.                  *)

FaultyDecayed(state, deficit) == state + KMemScale * deficit
Decayed(state, deficit) ==
  ((DecayParts - 1) * state + KMemScale * deficit) \div DecayParts

FaultyPrior(after, initialized) == IF initialized THEN {after} ELSE {}
Prior(after, initialized) == IF kInitialized THEN {kState} ELSE {}

KMemStep(deficit) ==
  LET state       == IF deficit = {} THEN kState ELSE Decayed(kState, ValueOr(deficit, 0))
      initialized == kInitialized \/ deficit # {}
  IN
  /\ kState' = state
  /\ kInitialized' = initialized
  /\ kMem' = [prior |-> Prior(state, initialized),
              after |-> IF initialized THEN {state} ELSE {}]

-----------------------------------------------------------------------------
(* structural_vector: the dimensions that may be missing.                  *)
Available(d) ==
  CASE d = "transport_coherence"      -> row.coherence # {}
    [] d = "variation_contraction"    -> row.contraction # "UNRESOLVED"
    [] d = "transport_deficit"        -> row.deficit # {}
    [] d = "friction_vs_recovery"     -> odce.differential["structural_recovery"] # {}
    [] d = "friction_vs_organization" -> odce.differential["adaptive_organization_level"] # {}
    [] d = "strictly_prior_z32"       -> kMem.prior # {}

StackInit ==
  /\ Init
  /\ organizationRows = << >>
  /\ histories = [c \in Channels |-> << >>]
  /\ odce = [differential |-> [b \in Benefits |-> {}],
             trend        |-> [b \in Benefits |-> FALSE],
             exposure     |-> [b \in Benefits |-> 0]]
  /\ kState = 0
  /\ kInitialized = FALSE
  /\ kMem = [prior |-> {}, after |-> {}]
  /\ mask = {}

StackNext ==
  /\ Next
  /\ \E friction, recovery \in Magnitude : OdceStep(friction, recovery)
  /\ KMemStep(row'.deficit)
  /\ mask' = {d \in OptionalDims : Available(d)'}

StackSpec == StackInit /\ [][StackNext]_stackVars

-----------------------------------------------------------------------------
(* Properties.                                                             *)

(* The K-MEM dimension of a frame never contains the frame's own deficit:  *)
(* it is what the previous frame left behind, and it exists from the bar   *)
(* after the first evaluable one on, through inactive windows too.         *)
KMemStrictlyPrior ==
  [][kMem'.prior = kMem.after]_stackVars

KMemFollowsTransport ==
  kMem.prior # {} <=> \E f \in firstTransportEvaluable : f < index - 1

(* Organization needs its support twice over: enough evaluated windows to  *)
(* have a level, then enough earlier levels to be normalized.  No          *)
(* differential against it, and no exposure, can exist before that.        *)
OrganizationWarmup ==
  LET settled == {f + 2 * OdceMinimumSupport - 1 : f \in firstTransportEvaluable} IN
  /\ "friction_vs_organization" \in mask => \E s \in settled : index > s
  /\ odce.exposure["adaptive_organization_level"]
       <= ValueOr({Greatest(0, index - s) : s \in settled}, 0)

=============================================================================
