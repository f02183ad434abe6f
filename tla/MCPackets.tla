----------------------------- MODULE MCPackets ------------------------------
(* Packets on small instances.                                             *)
EXTENDS Packets, TLC

\* m1 and m2 are of different sizes, and the pool has room for the larger.
MCMemorySize == [m \in Memory |-> IF m = CHOOSE x \in Memory : TRUE THEN 1 ELSE 2]
MCFanouts == SUBSET Consumers \ {{}}
ConsumerSymmetry == Permutations(Consumers)

Budget(packets, buffers, clones, changes, faults) ==
    [packets |-> packets, buffers |-> buffers, clones |-> clones, changes |-> changes, faults |-> faults]
\* A packet with a clone and a change, or with two buffers of the kernels, or
\* two packets; a cancellation or an error beside a clone or a change.
MCBudgets ==
    {Budget(1, 0, 1, 1, 0), Budget(1, 2, 0, 0, 0), Budget(2, 0, 0, 0, 0),
     Budget(1, 0, 1, 0, 1), Budget(1, 0, 0, 1, 1)}

Described(shapes, strides, elements, data) ==
    {[shape |-> s, strides |-> t, element |-> e, data |-> d, readonly |-> FALSE, plain |-> TRUE] :
        s \in shapes, t \in strides, e \in elements, d \in data}

\* One axis, long and short, in any direction, near both ends of the address
\* space; two and three axes in every order, reversed, repeated, overlapping
\* and with gaps; products that overflow; descriptors that say something wrong.
OneAxis == Described({<<n>> : n \in (-1 .. 4) \cup {20, 40}},
                     {<<n>> : n \in (-3 .. 3) \cup {-20, 20}}, 0 .. 2, {0, 1, 16, 60})
TwoAxes == Described((0 .. 3) \X (0 .. 3), (-3 .. 4) \X (-3 .. 4), 1 .. 2, {16})
ThreeAxes == Described(({1, 2} \X {1, 2} \X {1, 2}) \cup {<<2, 3, 2>>, <<3, 2, 2>>, <<2, 0, 2>>},
                       {-2, 1, 2, 4, 6} \X {-2, 1, 2, 4, 6} \X {-2, 1, 2, 4, 6}, 1 .. 2, {24})
Overflowing == Described({<<0, 40, 40>>, <<40, 40, 0>>, <<9, 8, 1>>, <<1, 8, 4>>, <<1, 1, 16>>},
                         {<<1, 1, 1>>, <<4, 4, 1>>, <<16, 2, 2>>}, 1 .. 2, {24})
Wrong == Described({<<>>}, {<<>>}, {1}, {24})
         \cup Described({<<1, 1, 1, 1>>}, {<<1, 1, 1, 1>>}, {1}, {24})
         \cup {[d EXCEPT !.plain = FALSE] : d \in Described({<<2>>}, {<<1>>}, {1}, {24})}
ReadOnly == {[d EXCEPT !.readonly = TRUE] : d \in Described({<<2>>}, {<<1>>, <<2>>}, {1}, {24})}
MCDescriptors == OneAxis \cup TwoAxes \cup ThreeAxes \cup Overflowing \cup Wrong \cup ReadOnly
=============================================================================
