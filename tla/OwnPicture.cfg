SPECIFICATION Spec
INVARIANT OwnPictureDeletable
CHECK_DEADLOCK FALSE
