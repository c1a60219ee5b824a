---------------------------- MODULE MCWorkspace ----------------------------
(* Small instances of the commands on a data root for TLC: the graphs the  *)
(* three kinds of profile yield, and every graph of four steps in which a  *)
(* model comes first, each step takes in some of what the steps before it  *)
(* made, and the last leaves the system, through a gate or not.            *)
EXTENDS Workspace, TLC

CONSTANTS p1, p2, p3    \* processes, as many of them as a scenario has

Art == <<"a", "b", "c", "d">>
Kind == <<"deterministic", "model", "human">>

(* The n-th of these graphs: two kinds, three sets of inputs, one flag. *)
TestGraph(n) ==
    LET digit(below, radix) == (n \div below) % radix
        Chosen(bits) == {Art[j] : j \in {j \in 1..3 : (bits \div 2^(j - 1)) % 2 = 1}}
        last == Step("s4", "egress", Chosen(digit(72, 8)), {"d"})
    IN  Graph("test",
              <<Step("s1", "model", {}, {"a"}),
                Step("s2", Kind[digit(1, 3) + 1], Chosen(digit(9, 2)), {"b"}),
                Step("s3", Kind[digit(3, 3) + 1], Chosen(digit(18, 4)), {"c"}),
                IF digit(576, 2) = 1 THEN Gated(last) ELSE last>>,
              [a \in {"a", "b", "c", "d"} |-> Derived])
Tests == 1..1152

(* Two contracts of a root that is being set up. *)
Single(kind) == Graph("test", <<Step("s1", kind, {}, {"a"})>>, [a \in {"a"} |-> Derived])
One == 1153
Two == 1154
Real == 1155..1157

GraphYielded(id) ==
    IF id \in Tests THEN TestGraph(id)
    ELSE <<Single("model"), Single("deterministic"), BuildGraph("sandbox"), BuildGraph("model"),
           BuildGraph("manual")>>[id - 1152]

(* What the source claims of its graphs when it builds them: they are sound, *)
(* complete and without a way around a gate; and in a pseudonymised one no  *)
(* step beyond the block reads the text of the source.                      *)
ASSUME GraphsOfTheSource ==
    \A id \in Real :
        LET g == GraphYielded(id)
        IN  /\ GraphOK(g) /\ Acyclic(g) /\ ContractsHold(g) /\ EgressViolations(g) = {}
            /\ \A s \in StepsOf(g) :
                 /\ g.profile = "manual" /\ TextGates(g, s) # {} /\ s \notin ToSet(ManualBlock)
                 => Text_read(g, s) = "transcript.pseudonymised.final"

HandedOver == <<Transfer("dinoh", "ohpipe", "r1", TRUE)>>

Scenario(processes, profiles, bound, given, command, act, fall, fault, transfer) ==
    [processes |-> processes, profiles |-> profiles, bound |-> bound, transfers |-> given,
     command |-> command, act |-> act, fall |-> fall, fault |-> fault, transfer |-> transfer]

Small == Scenario({p1}, {{id} : id \in Tests}, TRUE, HandedOver, 2, 2, 1, 0, 0)
AsBuilt == Scenario({p1}, {{id} : id \in Real}, TRUE, HandedOver, 2, 9, 1, 1, 0)
SetUp == Scenario({p1, p2}, {{One, Two}}, FALSE, HandedOver, 4, 1, 0, 2, 0)
Crowd == Scenario({p1, p2, p3}, {{One, Two}}, FALSE, HandedOver, 4, 1, 0, 1, 0)
HandOver == Scenario({p1}, {{One}}, TRUE, << >>, 2, 0, 0, 0, 3)

AllScenarios == {Small, AsBuilt, SetUp, Crowd, HandOver}

Symmetry == Permutations({p1, p2, p3})
=============================================================================
