---------------------------- MODULE MC_FaucetPage ----------------------------
(* A Cosmos wallet and MetaMask on the same two accounts, which have two
   addresses each.  Steps of the user at the page and the wallets, and
   requests at twice their price, share one budget; requests of others name
   their account by its bech32 address. *)
EXTENDS FaucetPage, TLC

CONSTANTS
    keplr, metamask, c1, c2,
    alice, bob, aliceBech, aliceHex, bobBech, bobHex,
    Budget          \* bound on steps of the user and requests together

MCAccountOf == [x \in {aliceBech, aliceHex, bobBech, bobHex} |->
                  IF x \in {bobBech, bobHex} THEN bob ELSE alice]

MCOwned == [w \in {keplr, metamask} |->
              IF w = keplr THEN {aliceBech, bobBech} ELSE {aliceHex, bobHex}]

(* The calls are interchangeable, and so are alice and bob with their addresses. *)
Swap == [x \in {alice, bob, aliceBech, aliceHex, bobBech, bobHex} |->
           CASE x = alice -> bob         [] x = bob -> alice
             [] x = aliceBech -> bobBech [] x = bobBech -> aliceBech
             [] x = aliceHex -> bobHex   [] x = bobHex -> aliceHex]

CallsAndUsers == Permutations({c1, c2}) \cup {Swap}

VARIABLE spent

MCInit == Init /\ spent = 0

Spend(price) == spent + price <= Budget /\ spent' = spent + price

MCNext ==
    \/ Spend(1) /\ UserStep
    \/ Spend(2) /\ UNCHANGED walletVars
       /\ \E c \in Calls : \/ RequestTokens(c)
                          \/ \E x \in {aliceBech, bobBech} : OthersRequest(c, x)
    \/ UNCHANGED spent /\ SystemStep

MCSpec == MCInit /\ [][MCNext]_<<faucetVars, spent>>
==============================================================================
