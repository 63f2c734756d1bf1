------------------------------ MODULE MCFeParams ------------------------------
(* FeParams with the parameters of the code: GF(2^8) and the shipped *)
(* profiles, one of which is constructed. *)
EXTENDS FeParams

VARIABLE profile    \* the profile of the extractor constructed

Init == profile \in {p \in ShippedProfiles : MeetsBudget(p)}
Next == UNCHANGED profile
Spec == Init /\ [][Next]_profile

\* The codec constructed has the parity and the dimension that the header of
\* BchCodec lists for its t as verified.
HeaderParameters ==
    /\ profile.t = 18 => ParityBits(18) = 124 /\ K(18) = 131
    /\ profile.t = 25 => ParityBits(25) = 171 /\ K(25) = 84
=============================================================================
