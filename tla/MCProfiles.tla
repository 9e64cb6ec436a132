------------------------------ MODULE MCProfiles ------------------------------
(* Small instances of Profiles: three profiles that point at a caster or     *)
(* nowhere, as a profile that was just made does, and imported ones that     *)
(* point nowhere; or two profiles and a caster with two mountpoints.         *)
EXTENDS Profiles

CONSTANTS A, B      \* the names the user gives
MCNames  == {"Default", A, B}
Symmetry == Permutations({A, B})

Point(c, m) == [caster |-> c, mount |-> m]
NoPoint   == Point("", "")
OneMount  == {NoPoint, Point("caster", "mount")}
TwoMounts == OneMount \cup {Point("caster", "other")}
FilePoint == {NoPoint}
===============================================================================
