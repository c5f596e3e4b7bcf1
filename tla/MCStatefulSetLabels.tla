------------------------ MODULE MCStatefulSetLabels ------------------------
(* Label sets for StatefulSetLabels.  No key changes its value.            *)
EXTENDS StatefulSetLabels

cluster   == <<"cluster", 1>>
component == <<"component", 1>>
app       == <<"app", 1>>

\* Versions that add, drop and exchange keys.
KeysChange == {{cluster}, {cluster, component}, {cluster, app}}

=============================================================================
