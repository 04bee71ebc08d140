\* ASTToJsonConverter on parse trees of depth up to 3, childless rules
\* included, and
\* ElaboratedModelToJsonConverter on nodes without properties.
CONSTANT Jobs <- AstAndPlainJobs
SPECIFICATION Spec
INVARIANT TypeOK
INVARIANT JsonWellFormed
\* convert_to_json returns after its last builder call.
CHECK_DEADLOCK FALSE
