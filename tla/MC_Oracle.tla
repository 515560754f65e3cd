------------------------------ MODULE MC_Oracle ------------------------------
(***************************************************************************)
(* x/oracle with three reporters, of which o3 is faulty.  At first no      *)
(* operator is registered and all may report; once governance registers o3 *)
(* the others may not, whatever they have committed to.  Of the prices 0,  *)
(* 10 and 13 the filter drops the first, and the median is 11.             *)
(***************************************************************************)
EXTENDS Oracle, TLC

CONSTANTS o1, o2, o3, feed

MCReporters  == {o1, o2, o3}
MCValidators == {o1, o2}
MCFaulty     == {o3}
MCFeeds      == {feed}
MCValues     == {0, 10, 13}

\* Only o3 is ever registered, and commits are made in the first three blocks,
\* so that all of them expire before the last one.
MCOracleSpec ==
    /\ OracleInit
    /\ [][/\ OracleNext
          /\ operators' \subseteq {o3}
          /\ height > 3 => \A k \in DOMAIN commits' : k \in DOMAIN commits /\ commits'[k] = commits[k]]_oracleVars

Symmetric == Permutations({o1, o2})
==============================================================================
