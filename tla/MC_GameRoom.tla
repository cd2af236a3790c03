---------------------------- MODULE MC_GameRoom ----------------------------
EXTENDS GameRoom

Play(cs, scs, lcs, gs, ds, drs) ==
    [claims |-> cs, selfClaims |-> scs, lastClaims |-> lcs,
     maxGroups |-> gs, maxDeals |-> ds, maxDrops |-> drs]

\* At haidilao: nobody, one user, or everybody can win or has four of a kind.
AtHaidilao(whos) ==
    {[s \in Seats |-> IF s \in who THEN c ELSE {}] : who \in whos, c \in {{HuPai}, {AGang}}}

\* Rounds of every kind, with lost connections: a discard offers nothing, a chi, or everything else.
Rounds(ds, drs) == Play({{}, {Chi}, {Peng, MGang, HuPai}}, SUBSET {AGang, HuPai},
                        AtHaidilao({{}, {1}}), 1, ds, drs)

\* Three games, so that a game settled twice can be dealt again midway: everybody may win at
\* haidilao, and before it only a drawn tile is claimed.
Redeal == Play({{}}, {{}, {HuPai}}, AtHaidilao({{}, Seats}), 0, 3, 0)

\* One game of gangs, up to the end of the wall.
Wall == Play({{}, {Peng, MGang}}, {{}, {AGang}}, AtHaidilao({{}}), 11, 1, 0)

OneGame == {Rounds(1, 0)}
AllPlays == {Rounds(2, 1), Redeal, Wall}
=============================================================================
