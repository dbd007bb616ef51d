---------------------------- MODULE RoleBurning ----------------------------
(***************************************************************************)
(* TIP-121c (proposals/description/tip_121c.ts) burns MINTER_ROLE: it puts  *)
(* the role under a temporary one, puts that under itself and renounces it. *)
(* This module remembers which roles were ever burned in that way.          *)
(***************************************************************************)
EXTENDS Permissions

VARIABLE burned   \* history: roles whose admin nobody could be given, once

burnVars == <<vars, burned>>

(* Nobody at all holds the admin of r, and only its holders could grant it. *)
Burned(r) == adminOf[adminOf[r]] = adminOf[r] /\ holders[adminOf[r]] = {}

BurnInit == Init /\ burned = {}

BurnNext == Next /\ burned' = burned \cup {r \in Majors : Burned(r)'}

BurnSpec == BurnInit /\ [][BurnNext]_burnVars

(* "nobody will ever be able to grant the MINTER_ROLE either"               *)
(* (tip_121c.ts:136).                                                       *)
NeverGrantedAgain ==
  [][\A r \in burned : holders'[r] \subseteq holders[r]]_burnVars
=============================================================================
