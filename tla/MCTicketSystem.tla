--------------------------- MODULE MCTicketSystem ---------------------------
(* Small instances of TicketSystem.                                        *)
EXTENDS TicketSystem, TLC

CONSTANTS alice, bob, G1, G2, north, south

Up == [stops |-> <<south, north>>, days |-> <<0>>, seats |-> 1, dates |-> {1}]
Down == [stops |-> <<north, south>>, days |-> <<0>>, seats |-> 1, dates |-> {1}]

MCLines == {Up}
MCLinesBothWays == {Up, Down}
MCSymmetry == Permutations(Usernames) \cup Permutations(TrainNames)

=============================================================================
