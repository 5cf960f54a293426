------------------------------- MODULE DnsZone -------------------------------
(***************************************************************************)
(* What the deliveries of a create job promise of the names of its stack:  *)
(* DnsRecords is how they are made.                                        *)
(***************************************************************************)
EXTENDS Integers, Sequences, FiniteSets

VARIABLES
    zone,       \* the records Route 53 serves
    rows,       \* rows of the stack, in the order of their creation
    job,        \* what the delivery is doing
    lost        \* history: a delivery died, or could not store its rows

Recorded == {rows[k].record : k \in DOMAIN rows}
Resting == job.at \in {"idle", "ok", "failed"}

\* However its changes are repeated, undone and made again, a delivery that
\* ends well leaves every name it wants in the zone.
DeliveredNamesResolve == job.at = "ok" => job.want \subseteq zone

\* No name is in the zone that no row knows of, unless a delivery died or the
\* database did not take its rows: rows go only when their names are gone.
ZoneIsKnown == Resting /\ ~lost => zone \subseteq Recorded

\* "Check for existing records and clean them up first": a delivery that finds
\* rows and zone in agreement and sees no call fail leaves its records alone.
CleanDeliveryReplaces ==
    job.at = "ok" /\ job.clean =>
        zone = job.want /\ Recorded = job.want /\ Len(rows) = Cardinality(zone)

\* Rows and zone part only by what died or failed, and come together again.
ZoneAndRowsAgree == ZoneIsKnown /\ CleanDeliveryReplaces
=============================================================================
