-------------------------------- MODULE MCService --------------------------------
EXTENDS Service, Sequences, TLC

CONSTANTS page, pass1, pass2, reindex

Hit(header, lede, body, outline, sections, cut) ==
    [header |-> header, lede |-> lede, body |-> body, outline |-> outline,
     sections |-> sections, cut |-> cut]
Section(title, lede) == [title |-> title, lede |-> lede]

\* Six pages, the first long and with sections; three of which the two after
\* the first just pass a share; no page at all.
MCFound ==
    [q \in {"many", "few", "none"} |->
        CASE q = "many" ->
                <<Hit(40, 400, 2000, 400, <<Section(0, 100), Section(20, 300)>>, 3)>>
                    \o [i \in 1 .. 5 |-> Hit(40, 400, 400, 0, <<>>, 0)]
          [] q = "few" ->
                <<Hit(40, 40, 300, 40, <<>>, 3), Hit(160, 88, 300, 40, <<>>, 3),
                  Hit(160, 88, 300, 40, <<>>, 3)>>
          [] q = "none" -> <<>>]

Symmetry ==
    Permutations(Clients) \cup Permutations(Commands) \cup Permutations(Passes)
=============================================================================
