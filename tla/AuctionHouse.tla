---------------------------- MODULE AuctionHouse ----------------------------
(***************************************************************************)
(* What bidders and sellers may rely on, however bids, closes, finalize     *)
(* commands and their retries interleave: a bid tops the one before it;     *)
(* exactly the standing bid is paid for, by its bidder; an auction is       *)
(* decided once, for the bid that stands then, and what is decided is never *)
(* touched again.  Time is left out: an auction may be decided at any       *)
(* moment that it is open.                                                  *)
(***************************************************************************)
EXTENDS Integers

CONSTANTS
    Auctions, Generals, NoOne,
    Amounts          \* what may be bid

VARIABLE house       \* the auctions as everybody sees them

\* `purse' is what each general has paid net, `goods' who got what was auctioned.
Lots == [stage : {"none", "open", "sold", "unsold", "void", "stranded"},
         seller : Generals \cup {NoOne}, bidder : Generals \cup {NoOne}, amount : Amounts \cup {0},
         purse : [Generals -> Int], goods : Generals \cup {NoOne}]

\* Every auction is a lot.
TypeOK == house \in [Auctions -> Lots]

Paid(g, amount) == [h \in Generals |-> IF h = g THEN amount ELSE 0]

Init == house = [a \in Auctions |-> [stage |-> "none", seller |-> NoOne, bidder |-> NoOne, amount |-> 0,
                                     purse |-> Paid(NoOne, 0), goods |-> NoOne]]

\* The first bid may come with the opening.
Open(a, seller, g, amount) ==
    /\ house[a].stage = "none"
    /\ house' = [house EXCEPT ![a] = [stage |-> "open", seller |-> seller, bidder |-> g, amount |-> amount,
                                      purse |-> Paid(g, amount), goods |-> NoOne]]

\* The seller of an auction stays the one who opened it.
Becomes(a, stage, bidder, amount, purse, goods) ==
    house' = [house EXCEPT ![a] = [stage |-> stage, seller |-> house[a].seller, bidder |-> bidder,
                                   amount |-> amount, purse |-> purse, goods |-> goods]]

Raise(a, g, amount) ==
    /\ house[a].stage = "open"
    /\ amount > house[a].amount /\ g # house[a].seller
    /\ Becomes(a, "open", g, amount, Paid(g, amount), NoOne)

\* The price of resources goes to their seller, that of an item to nobody.
Sell(a) ==
    LET lot == house[a] IN
    /\ lot.stage = "open" /\ lot.bidder # NoOne
    /\ Becomes(a, "sold", lot.bidder, lot.amount,
               [g \in Generals |-> Paid(lot.bidder, lot.amount)[g] - Paid(lot.seller, lot.amount)[g]],
               lot.bidder)

Return(a) ==
    LET lot == house[a] IN
    /\ lot.stage = "open" /\ lot.bidder = NoOne
    /\ Becomes(a, "unsold", NoOne, lot.amount, lot.purse, lot.seller)

\* The seller is gone, the goods are not there, or the season is decided: the bidders of
\* these auctions are refunded.
Void(ended) ==
    /\ \A a \in ended : house[a].stage = "open" /\ house[a].bidder # NoOne
    /\ house' = [a \in Auctions |->
                    IF a \in ended
                    THEN [stage |-> "void", seller |-> house[a].seller, bidder |-> house[a].bidder,
                          amount |-> house[a].amount, purse |-> Paid(NoOne, 0), goods |-> NoOne]
                    ELSE house[a]]

\* Whoever should get the goods is gone: nothing changes hands any more.
Strand(a) ==
    LET lot == house[a] IN
    /\ lot.stage = "open"
    /\ Becomes(a, "stranded", lot.bidder, lot.amount, lot.purse, NoOne)

Step ==
    \/ \E ended \in SUBSET Auctions : Void(ended)
    \/ \E a \in Auctions :
        \/ Sell(a) \/ Return(a) \/ Strand(a)
        \/ \E g \in Generals, amount \in Amounts : Raise(a, g, amount)
        \/ \E seller \in Generals \cup {NoOne} : Open(a, seller, NoOne, 0)
        \/ \E g \in Generals, amount \in Amounts : Open(a, NoOne, g, amount)

\* What nobody sees is not a step.
Next == house' # house /\ Step

Spec == Init /\ [][Next]_house
=============================================================================
