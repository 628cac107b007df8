----------------------------- MODULE MCServices -----------------------------
(* Values for the constants of ServiceLifecycle: a Supabase stack, the     *)
(* compose service that needs it and a compose-native service.             *)
EXTENDS ServiceLifecycle, TLC

CONSTANTS sb, web, nat, s1, s2, w1, w2, n1, n2

MCKind == [k \in Key |-> CASE k = sb -> "supabase" [] k = web -> "compose"
                           [] k = nat -> "native"]
MCBranchOf == [k \in Key |-> CHOOSE b \in Branch : TRUE]
MCNeeds == [k \in Key |-> IF k = web THEN {sb} \cap Key ELSE {}]
MCKeyOf == [i \in Inst |-> CASE i \in {s1, s2} -> sb [] i \in {w1, w2} -> web
                             [] i \in {n1, n2} -> nat]

(* Tasks are interchangeable, and so are the objects of one key. *)
Symmetric == Permutations(Task) \cup Permutations({s1, s2} \cap Inst)
             \cup Permutations({w1, w2} \cap Inst) \cup Permutations({n1, n2} \cap Inst)
=============================================================================
