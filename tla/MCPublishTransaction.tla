------------------------ MODULE MCPublishTransaction ------------------------
(* Instances of PublishTransaction for TLC: the operations that             *)
(* publish_transaction lists, for an imported source, for a generated page, *)
(* and for a generated page that is the index itself.                       *)
EXTENDS PublishTransaction

CONSTANTS Source, Page, Index, Log, Overview, Registry, Draft

PublishedFiles == {Source, Page, Index, Log, Overview, Registry, Draft}

Aggregates == <<Index, Log, Overview, Registry, Draft>>

SourcePlan == <<Source, Page>> \o Aggregates
GeneratedPlan == <<Page>> \o Aggregates
IndexPlan == <<Index>> \o Aggregates

PublishedPlans == {SourcePlan, GeneratedPlan, IndexPlan}

=============================================================================
