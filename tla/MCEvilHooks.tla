---------------------------- MODULE MCEvilHooks ----------------------------
(* Instances of EvilHooks for TLC: three kinds of hooks; a small mod, one with a
   token transmuter, and one with all callbacks, registered by a conspiracy. *)
EXTENDS EvilHooks

MCMods == {"pipe", "kotlin", "full"}
MCConspiracies == {"Mod.init", "Quick.init"}
MCKinds == {"expr", "block", "transmute"}
MCOffers == [m \in MCMods |-> CASE m = "pipe" -> {"expr"} [] m = "kotlin" -> {"transmute"}
                                [] m = "full" -> MCKinds]
MCRegisters == [c \in MCConspiracies |-> IF c = "Mod.init" THEN {"full"} ELSE {}]
MCQuick == [c \in MCConspiracies |-> IF c = "Mod.init" THEN {} ELSE {"expr"}]
MCFirstDefaults == <<"pipe">>
MCHeaders == {<<>>, <<"pipe", "kotlin">>, <<"full", "pipe">>, <<"kotlin", "full", "pipe">>}
MCArguments == {<<"kotlin">>}
=============================================================================
