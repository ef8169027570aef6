---------------------------- MODULE MCDocuments ----------------------------
EXTENDS Documents, TLC

CONSTANTS u1, u2, l1, l2, l3, l4, b1, b2, b3, r1, r2, r3, InBoth, Weekly

MCLeaves == {l1, l2, l3, l4}

MCPlanted ==
    [l \in MCLeaves |->
        CASE l = l1 -> [branch |-> b1, parent |-> None, sources |-> {}]
          [] l = l2 -> [branch |-> b1, parent |-> l1, sources |-> {}]
          [] l = l3 -> [branch |-> b2, parent |-> None, sources |-> {l1, l2}]
          [] OTHER -> None]

MCConnected == {{l1, l2}}

MCLeafLists == {<<l2, l3>>, <<l3, l4>>, <<l1, l1>>, <<>>}

(* One user changes the channels while another request changes the digest.  *)
MCWishes == {[channels |-> InBoth, digest |-> None], [channels |-> None, digest |-> Weekly]}

Symmetry == Permutations({r1, r2, r3})
=============================================================================
