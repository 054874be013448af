---------------------------- MODULE MCRoomPresence ----------------------------
EXTENDS RoomPresence, TLC
CONSTANTS h, g, t1, t2
\* The host holds one connection, the guest two.
MCSockets == {<<h, 1>>, <<g, 1>>, <<g, 2>>}
MCTrials == {<<{}, 2, 1>>, <<{"join", "leave"}, 1, 0>>, <<{"cleanup", "drop"}, 2, 0>>,
             <<{"cleanup", "kick"}, 2, 0>>, <<{"connect", "start"}, 2, 0>>,
             <<{"connect", "drop"}, 2, 0>>, <<{"kick", "start"}, 2, 0>>}
MCQuietTrials == {<<{}, 2, 0>>}
Symmetry == Permutations({t1, t2})
===============================================================================
