------------------------------ MODULE CreditsAcross ------------------------------
(***************************************************************************)
(* What the bridge promises: a credit is at home, away or under way.  What *)
(* leaves one chain arrives on the other at most once and in full, and the *)
(* amount that is away changes in no other manner.                         *)
(***************************************************************************)
EXTENDS Integers, Sequences

VARIABLES
  home,      \* credits in circulation at home
  away,      \* credits in circulation away
  out,       \* the amounts that ever left home
  arrived,   \* which of them arrived away
  back,      \* the amounts that ever left for home
  returned   \* which of them arrived at home

acrossVars == <<home, away, out, arrived, back, returned>>

Origin ==
  /\ home = 0
  /\ away = 0
  /\ out = <<>>
  /\ arrived = {}
  /\ back = <<>>
  /\ returned = {}

\* Credits are issued, retired and burned at home only.
Trade == UNCHANGED <<away, out, arrived, back, returned>>

Leave ==
  /\ Len(out') = Len(out) + 1
  /\ out' = Append(out, home - home')
  /\ home' < home
  /\ UNCHANGED <<away, arrived, back, returned>>

Arrive ==
  /\ \E i \in DOMAIN out \ arrived : /\ arrived' = arrived \cup {i}
                                     /\ away' = away + out[i]
  /\ UNCHANGED <<home, out, back, returned>>

LeaveForHome ==
  /\ Len(back') = Len(back) + 1
  /\ back' = Append(back, away - away')
  /\ away' < away
  /\ UNCHANGED <<home, out, arrived, returned>>

Return ==
  /\ \E i \in DOMAIN back \ returned : /\ returned' = returned \cup {i}
                                       /\ home' = home + back[i]
  /\ UNCHANGED <<away, out, arrived, back>>

Across == Origin /\ [][Trade \/ Leave \/ Arrive \/ LeaveForHome \/ Return]_acrossVars
================================================================================
