SPECIFICATION GatewaySpec
CHECK_DEADLOCK FALSE
CONSTANT Gates <- Instances
INVARIANT GatewayInv
PROPERTY OutageServes
