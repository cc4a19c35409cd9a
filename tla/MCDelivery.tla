------------------------------ MODULE MCDelivery ------------------------------
(* A switch of two gangs and a plain relay: a group of the second gang and *)
(* the relay, served by one worker, beside a tap on the relay.             *)
EXTENDS Delivery, TLC
CONSTANTS switch, relay, gang1, gang2, lamp, group, tap
MCDeviceOf == [r \in Relays |-> IF r = lamp THEN relay ELSE switch]
MCTargets == [c \in Calls |-> IF c = group THEN <<gang2, lamp>> ELSE <<lamp>>]
MCActions == [c \in Calls |-> IF c = group THEN {"on"} ELSE {"off", "toggle"}]
=============================================================================
