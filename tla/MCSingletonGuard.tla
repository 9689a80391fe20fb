-------------------------- MODULE MCSingletonGuard --------------------------
(* Instances of SingletonGuard for TLC. *)
EXTENDS SingletonGuard
=============================================================================
