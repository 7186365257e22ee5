----------------------------- MODULE UserTables -----------------------------
(***************************************************************************)
(* What the web application does with table users and with table jobs. No  *)
(* action touches both, so a behaviour is one of Accounts or one of        *)
(* Listing.                                                                *)
(***************************************************************************)
EXTENDS Accounts

CONSTANTS PerPage, Told, MaxJobs, MaxFaults

VARIABLES
    part,
    jobs, clock, gone, faults, step, asked, list, walk

List == INSTANCE Listing

ASSUME ListAssumption == List!ListingAssumption

listVars == <<jobs, clock, gone, faults, step, asked, list, walk>>

WebInit ==
    /\ part \in {"accounts", "listing"}
    /\ Init
    /\ List!Init
    /\ part = "accounts" => clock = 0

WebNext ==
    /\ UNCHANGED part
    /\ \/ part = "accounts" /\ Next /\ UNCHANGED listVars
       \/ part = "listing" /\ List!Next /\ UNCHANGED vars

WebSpec == WebInit /\ [][WebNext]_<<part, vars, listVars>>

WebTypeOK == TypeOK /\ List!TypeOK
PagesPartition == List!PagesPartition
FreshJobIsListed == List!FreshJobIsListed
WalksAreExplained == List!WalksAreExplained

=============================================================================
