--------------------------- MODULE DriverAccount ---------------------------
(***************************************************************************)
(* What one driver has with the service: his wallet (UserWallet), a trip   *)
(* with its orders and refunds (TripOrders), his vehicles (Vehicles) and   *)
(* the payment methods he saved (PaymentMethods), on one server and one    *)
(* database.                                                               *)
(*                                                                         *)
(* They share the handlers.  A refund of an order is a credit of the       *)
(* wallet; a trip is booked with one of the vehicles, which it then keeps. *)
(***************************************************************************)
EXTENDS TripOrders

CONSTANTS
  NVehicles,   \* that of Vehicles
  NMethods     \* that of PaymentMethods

ASSUME AccountAssumption ==
  /\ NVehicles \in Nat /\ NMethods \in Nat
  /\ \A w \in Workloads : w.vehicles \in Nat

VARIABLES
  vehicle, unset,   \* those of Vehicles
  method, chosen    \* those of PaymentMethods

garage  == <<vehicle, unset>>
methods == <<method, chosen>>

Garage == INSTANCE Vehicles
Cards  == INSTANCE PaymentMethods

AccountInit == Init /\ TripInit /\ Garage!Init /\ Cards!Init

AccountNext ==
  \/ Next /\ UNCHANGED <<account, garage, methods>>
  \/ TripStep /\ UNCHANGED <<garage, methods>>
  \/ \E r \in Requests, v \in Garage!Owned : BookTrip(r, v) /\ UNCHANGED <<garage, methods>>
  \/ Garage!Step /\ UNCHANGED <<wallet, topup, split, booking, faults, past, order, refund, applied, methods>>
  \/ Cards!Step /\ UNCHANGED <<wallet, topup, split, booking, past, account, garage>>

AccountSpec == AccountInit /\ [][AccountNext]_<<vars, account, garage, methods>>

-----------------------------------------------------------------------------
\* The rows of the four; and the vehicle that a trip was booked with is there, however
\* deleting it and booking with it interleave.
AccountTypeOK == TypeOK /\ TripTypeOK /\ Garage!TypeOK /\ Cards!TypeOK

\* The default among the vehicles and among the payment methods: see DefaultVehicle of
\* Vehicles and DefaultMethod of PaymentMethods.
OneDefault == Garage!DefaultVehicle /\ Cards!DefaultMethod
=============================================================================
