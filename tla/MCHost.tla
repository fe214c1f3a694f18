------------------------------- MODULE MCHost -------------------------------
(* Small hosts: three images, two visitors, browsers, requests and pages.  *)
EXTENDS Host, TLC

CONSTANTS h1, h2    \* web requests in flight: interchangeable

Interchangeable == Permutations({h1, h2})

(* A daemon web-gui depends on, web-gui itself and an optional service.    *)
Images == <<"node", "web", "scanner">>

(* Releases: a final one, the next one's candidate and the next one.       *)
Release(core, rc) == [core |-> core, rc |-> rc, prerelease |-> rc # 0]
Installed == Release(1, 0)
Published == {Installed, Release(2, 1), Release(2, 0)}

(* A message that switches staking on, one that switches it off with the   *)
(* same code from another chat, and one that asks.                         *)
BotMessages == {[chat |-> 1, cmd |-> "on", code |-> 1],
                [chat |-> 2, cmd |-> "off", code |-> 1],
                [chat |-> 1, cmd |-> "show", code |-> 0]}
=============================================================================
