--------------------------- MODULE TrafficPackage ---------------------------
(***************************************************************************)
(* The traffic packages of one id: trafficpackage/trafficpackage.go over   *)
(* trafficpackage/impl/fmstorage/storage.go.  A call reads the packages    *)
(* that have something left and charges them later, in one piece           *)
(* (ConsumeAmount) or package by package (TryConsumeAmount), beside other  *)
(* calls.  What makes that safe is that Consume checks the amounts the     *)
(* call has read.  Package ids are members of a set, and a package's date  *)
(* and note are left out.                                                  *)
(***************************************************************************)
EXTENDS Integers, Sequences, FiniteSets, FiniteSetsExt, Functions

CONSTANTS
  Callers,     \* concurrent calls of ConsumeAmount and TryConsumeAmount
  PackageIDs,  \* bound: the packages that can be added
  Sizes,       \* bound: the amount of a package
  Requests     \* bound: the amounts asked for

ASSUME TrafficAssumption ==
  /\ IsFiniteSet(Callers)
  /\ Sizes \subseteq Nat \ {0}
  /\ Requests \subseteq Nat \ {0}

VARIABLES
  packages,  \* packages.json: the packages of the id, oldest first
  call,      \* the call each caller is in
  granted    \* history: what each caller's calls reported as consumed

trafficVars == <<packages, call, granted>>

-----------------------------------------------------------------------------
Package == [id : PackageIDs, amount : Nat, left : Nat]

\* GetPackages(id, FALSE): the packages with something left, in their order.
GetPackages ==
  LET seen[i \in 0..Len(packages)] ==
        IF i = 0 THEN <<>>
        ELSE IF packages[i].left > 0 THEN Append(seen[i - 1], packages[i])
        ELSE seen[i - 1]
  IN  seen[Len(packages)]

\* GetAmount
GetAmount(infos) == SumFunction([i \in 1..Len(infos) |-> infos[i].left])

\* How ConsumeAmount spreads n over the packages it has read.
ConsumeData(infos, n) ==
  LET before(i) == GetAmount(SubSeq(infos, 1, i - 1))
  IN  { [id |-> infos[i].id, take |-> Min({infos[i].left, n - before(i)}),
         old |-> infos[i].left] : i \in {j \in 1..Len(infos) : before(j) < n} }

\* Mutant: what a package has left is not looked at again.
AcceptsAll(cds) == TRUE

\* Consume checks every package before it changes any.
Accepts(cds) ==
  \A cd \in cds : \E p \in Range(packages) :
    p.id = cd.id /\ p.left = cd.old /\ cd.take <= p.left

Charge(cds) ==
  [i \in 1..Len(packages) |->
     LET mine == {cd \in cds : cd.id = packages[i].id}
     IN  IF mine = {} THEN packages[i]
         ELSE [packages[i] EXCEPT !.left = @ - (CHOOSE cd \in mine : TRUE).take]]

-----------------------------------------------------------------------------
IdleCall == [pc |-> "idle", asked |-> 0, n |-> 0, infos |-> <<>>, refused |-> FALSE]

\* The call returns: what it reports, and whether with an error.
Return(c, reported, refused) ==
  /\ call' = [call EXCEPT ![c] = [pc |-> "done", asked |-> call[c].asked,
                n |-> call[c].asked - reported, infos |-> <<>>, refused |-> refused]]
  /\ granted' = [granted EXCEPT ![c] = @ + reported]

(* AddPackage and AddPackageEx; an id that is taken is refused.             *)
AddPackage(id, amount) ==
  /\ \A p \in Range(packages) : p.id # id
  /\ packages' = Append(packages, [id |-> id, amount |-> amount, left |-> amount])
  /\ UNCHANGED <<call, granted>>

(* ConsumeAmount reads the packages; too little is refused at once.         *)
BeginConsume(c, n) ==
  LET infos == GetPackages
      short == n > GetAmount(infos)
  IN  /\ call[c].pc \in {"idle", "done"}
      /\ call' = [call EXCEPT ![c] =
                    [pc |-> IF short THEN "done" ELSE "consume", asked |-> n,
                     n |-> n, infos |-> IF short THEN <<>> ELSE infos,
                     refused |-> short]]
      /\ UNCHANGED <<packages, granted>>

\* Mutant: packages are charged up to the first one that does not agree.
EndConsumePiecewise(c) ==
  LET cds == ConsumeData(call[c].infos, call[c].n)
  IN  /\ call[c].pc = "consume"
      /\ packages' = Charge({cd \in cds : Accepts({cd})})
      /\ Return(c, IF Accepts(cds) THEN call[c].n ELSE 0, ~Accepts(cds))

(* ... and charges them all, or none if one has changed since.              *)
EndConsume(c) ==
  LET cds == ConsumeData(call[c].infos, call[c].n)
  IN  /\ call[c].pc = "consume"
      /\ packages' = IF Accepts(cds) THEN Charge(cds) ELSE packages
      /\ Return(c, IF Accepts(cds) THEN call[c].n ELSE 0, ~Accepts(cds))

(* TryConsumeAmount reads the packages.                                     *)
BeginTry(c, n) ==
  /\ call[c].pc \in {"idle", "done"}
  /\ call' = [call EXCEPT ![c] = [pc |-> "try", asked |-> n, n |-> n,
                infos |-> GetPackages, refused |-> FALSE]]
  /\ UNCHANGED <<packages, granted>>

TryData(c) ==
  LET info == Head(call[c].infos)
  IN  [id |-> info.id, take |-> Min({call[c].n, info.left}), old |-> info.left]

(* It charges the next package it has read.                                 *)
TryConsume(c) ==
  LET cd   == TryData(c)
      left == call[c].n - cd.take
  IN  /\ call[c].pc = "try"
      /\ call[c].infos # <<>>
      /\ Accepts({cd})
      /\ packages' = Charge({cd})
      /\ IF left = 0
         THEN Return(c, call[c].asked, FALSE)
         ELSE /\ call' = [call EXCEPT ![c].n = left, ![c].infos = Tail(@)]
              /\ UNCHANGED granted

\* Mutant: a package that does not agree is passed over.
TryRefusedGoesOn(c) ==
  /\ call[c].pc = "try"
  /\ call[c].infos # <<>>
  /\ ~Accepts({TryData(c)})
  /\ call' = [call EXCEPT ![c].infos = Tail(@)]
  /\ UNCHANGED <<packages, granted>>

(* The package has changed since: the call ends, with an error unless it    *)
(* has consumed something already.                                          *)
TryRefused(c) ==
  /\ call[c].pc = "try"
  /\ call[c].infos # <<>>
  /\ ~Accepts({TryData(c)})
  /\ UNCHANGED packages
  /\ Return(c, call[c].asked - call[c].n, call[c].n = call[c].asked)

(* No package is left: the call reports less than was asked for.            *)
TryShort(c) ==
  /\ call[c].pc = "try"
  /\ call[c].infos = <<>>
  /\ UNCHANGED packages
  /\ Return(c, call[c].asked - call[c].n, FALSE)

TryStep(c) == TryConsume(c) \/ TryRefused(c) \/ TryShort(c)

TrafficInit ==
  /\ packages = <<>>
  /\ call = [c \in Callers |-> IdleCall]
  /\ granted = [c \in Callers |-> 0]

TrafficNext ==
  \/ \E id \in PackageIDs, amount \in Sizes : AddPackage(id, amount)
  \/ \E c \in Callers :
       \/ \E n \in Requests : BeginConsume(c, n) \/ BeginTry(c, n)
       \/ EndConsume(c)
       \/ TryStep(c)

Spec == TrafficInit /\ [][TrafficNext]_trafficVars

-----------------------------------------------------------------------------
\* What the calls that are still running have consumed.
InFlight ==
  SumFunction([c \in Callers |-> IF call[c].pc = "try" THEN call[c].asked - call[c].n ELSE 0])

\* What has been taken off the packages.
Charged ==
  SumFunction([i \in 1..Len(packages) |-> packages[i].amount - packages[i].left])

(* Packages and calls are well-formed, and no package is overdrawn.         *)
TypeOK ==
  /\ packages \in Seq(Package)
  /\ \A p \in Range(packages) : p.left \in 0..p.amount
  /\ call \in [Callers -> [pc : {"idle", "consume", "try", "done"}, asked : Nat,
                           n : Nat, infos : Seq(Package), refused : BOOLEAN]]
  /\ granted \in [Callers -> Nat]

(* Whatever calls run side by side, what is taken off the packages is what  *)
(* calls report, or will: a refused ConsumeAmount has taken nothing, and a  *)
(* TryConsumeAmount that stops early reports what it took.                  *)
ChargedIsReported == Charged = SumFunction(granted) + InFlight

(* Packages are used up in the order they were added: one is touched only   *)
(* when nothing is left on those before it.                                 *)
OldestFirst ==
  \A i, j \in 1..Len(packages) :
    i < j /\ packages[j].left < packages[j].amount => packages[i].left = 0
=============================================================================
