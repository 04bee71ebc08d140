\* ElaboratedModelToJsonConverter on nodes that carry properties.
CONSTANT Jobs <- ElabPropJobs
SPECIFICATION Spec
INVARIANT JsonRoundTrip
\* convert_to_json returns after its last builder call.
CHECK_DEADLOCK FALSE
