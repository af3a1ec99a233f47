---------------------------- MODULE MCFreezeMsig ----------------------------
(* FreezeMsig for TLC. *)
EXTENDS FreezeMsig

CONSTANTS x, n1, p1, p2, c1, c2, a1

OneProposal == {<<x, n1>>}
FirstAdds == {<<c1, {a1}>>, <<c2, {}>>}
Unlock1OrActivate == {<<"unlock", c1>>, <<"actfreezed", c1>>, <<"actfreezed", c2>>}
OneExpires == [trx : Unlock1OrActivate, expiration : {2}]
              \cup {[trx |-> <<"actfreezed", c1>>, expiration |-> 1]}
BothAsked == {{p1, p2}}
OneOrTwo == {{p1, p2}, {p1}}
OldRow == {[id |-> <<x, n1>>, trx |-> <<"unlock", c1>>, expiration |-> 2, requested |-> {p1}]}
=============================================================================
