------------------------------ MODULE MC_Parts ------------------------------
(***************************************************************************)
(* The parts of the system that share no state, one beside the other: the  *)
(* initial state says which part moves; the others keep still, so that     *)
(* their state spaces add up.                                              *)
(***************************************************************************)
EXTENDS Codec, Shutdown, Lobby, Registry, Evio, Timers, Slots, Hands, TLC

(* All short payloads, and two that are too long for the length field of base 2. *)
SmallPayloads == UNION {[1 .. n -> 0 .. 1] : n \in 0 .. 3} \cup {<<1, 0, 1, 0>>, <<1, 1, 1, 1, 0>>}

(* On every line every order of two elements and the wild one, the rest of the board winning; *)
(* on the first line also Free and, beside it, Bonus.                                        *)
BoardOf(i, g, e) ==
    [p \in 0 .. 9 |-> IF \E k \in 1 .. 3 : Lines[i][k] = p
                      THEN g[CHOOSE k \in 1 .. 3 : Lines[i][k] = p] ELSE e]
SmallBoards ==
    {BoardOf(i, g, 1) : i \in DOMAIN Lines, g \in [1 .. 3 -> {1, 2, 10}]}
    \cup {BoardOf(1, g, 1) : g \in [1 .. 3 -> {2, 8}]}
    \cup {BoardOf(1, g, 9) : g \in [1 .. 3 -> {1, 10}]}

VARIABLE part

(* The hands of TestHulz of mj/hu_test.go and the flags it expects. *)
FlagsOf(hand14) ==
    HuPai(Newlz([t \in Tiles |-> Cardinality({i \in DOMAIN hand14 : hand14[i] = t})], 0, 0, <<>>)).hus
ASSUME TestHulz ==
    /\ FlagsOf(<<13, 8, 8, 8, 13, 16, 16, 16, 14, 14, 15, 15, 13, 13>>) = {"PH", "ZM", "HH", "QYS", "PPH"}
    /\ FlagsOf(<<8, 8, 8, 13, 14, 16, 16, 16, 14, 14, 15, 15, 13, 13>>) = {"PH", "ZM", "QYS", "PPH"}
    /\ FlagsOf(<<8, 8, 8, 13, 14, 15, 16, 16, 24, 25, 26, 35, 34, 33>>) = {"PH", "MQQ"}
    /\ FlagsOf(<<11, 12, 13, 13, 14, 15, 16, 16, 14, 15, 16, 17, 18, 19>>) = {"PH", "YH", "ZM", "QYS"}

(* Every place of the reels and of the bonus is drawn as often as its weight says. *)
ASSUME TestWeights ==
    \A weights \in {Weights, BonusWeights} : \A i \in DOMAIN weights :
        Cardinality({r \in 0 .. Sum(weights) - 1 : reelGet(weights, r) = i}) = weights[i]

Parts == {"codec", "lobby", "hands", "timers", "process", "registry", "slots", "evio"}

PartsInit ==
    /\ part \in Parts
    /\ CodecInit /\ LobbyInit /\ RegistryInit /\ EvioInit /\ HandInit /\ SlotInit
    /\ TimerInit /\ (part # "timers" => duration = [t \in Tasks |-> 1])
    /\ Init /\ (part # "process" => kind = "gate")

PartsNext ==
    /\ part' = part
    /\ IF part = "codec"    THEN CodecNext ELSE UNCHANGED codecVars
    /\ IF part = "lobby"    THEN LobbyNext ELSE UNCHANGED lobbyVars
    /\ IF part = "hands"    THEN HandNext ELSE UNCHANGED hand
    /\ IF part = "timers"   THEN TimerNext ELSE UNCHANGED timerVars
    /\ IF part = "process"  THEN Next   ELSE UNCHANGED vars
    /\ IF part = "registry" THEN RegistryNext ELSE UNCHANGED registryVars
    /\ IF part = "slots"    THEN SlotNext ELSE UNCHANGED slotVars
    /\ IF part = "evio"     THEN EvioNext ELSE UNCHANGED evioVars

PartsSpec == PartsInit /\ [][PartsNext]_<<part, codecVars, lobbyVars, hand, timerVars, vars,
                                          registryVars, slotVars, evioVars>>

=============================================================================
